---- MODULE Spec2Model ----
(***************************************************************************)
(* Verification model of CryptoRecover: the rate-limited balance pipeline  *)
(* (lib/blockchain-api), the wallet scanner (lib/wallet-generator), the    *)
(* basic and advanced learning states (lib/ml-learning, lib/ml-advanced),  *)
(* their persistence, the strategy controller's stores (lib/ml-controller) *)
(* the manual training route and the batch scanner with its route.         *)
(*                                                                         *)
(* JavaScript runs every synchronous segment to completion, so one action  *)
(* of the model is one such segment: the code between two awaits.          *)
(***************************************************************************)
EXTENDS Integers, Sequences, FiniteSets, TLC

VARIABLES
    \* ---- RateLimiter (blockchain-api) ----
    now,          \* Date.now(), in ms
    minInterval,  \* RateLimiter.minInterval
    queue,        \* RateLimiter.queue: the wrapped work items, by item number
    processing,   \* RateLimiter.processing
    lastCall,     \* RateLimiter.lastCall
    items,        \* every add() call so far, in call order: the caller of each
    promise,      \* the promise add() returned for each item
    loops,        \* every process() invocation that got past its guard
    started,      \* log of work-item starts: item, time, drain loop
    \* ---- scanSeedPhrase / checkWalletBalance (wallet-generator, blockchain-api) ----
    sPhase,       \* "idle", "checking" or "done"
    sWalletType,  \* the walletType argument of scanSeedPhrase
    sRealAPI,     \* the useRealAPI argument
    sTodo,        \* typesToCheck still to do, the current one first
    sResults,     \* results pushed so far, each with the record of its check
    cPc,          \* where the current balance check awaits
    cAttempt,     \* `attempt` of checkWalletBalanceWithRetry
    cResps,       \* upstream responses the current check has received
    cWaits,       \* backoff delays the current check has slept, in ms
    cBal,         \* checkEthereumBalance: the balance read so far
    cTx,          \* checkEthereumBalance: txCount
    reqs,         \* every outbound request of the scan
    \* ---- learning state (ml-learning, ml-advanced) and its persistence ----
    ml,           \* the MLState in memory
    adv,          \* the AdvancedMLState in memory
    mlOp,         \* the operation that ran last
    mlPhrase,     \* the words the last learning call split its phrase into
    dbRow,        \* table ml_state: the one row with id = 1, or no row
    submissions,  \* the rows of table training_submissions: has_balance
    configRow,    \* table ml_config: the one row with id = 1, or no row
    metricsRow,   \* table ml_metrics: the one row with id = 1, or no row
    gen,          \* what the last generate / stats call returned
    mlSteps,      \* operations done so far that a bound limits
    ctl,          \* the MLController object: its config and metrics fields
    \* ---- batchScan and POST /api/wallet/batch-scan (wallet-generator, index) ----
    batch         \* the frame of the invocation: arguments, locals, position

rlVars == <<now, minInterval, queue, processing, lastCall, items, promise,
            loops, started>>

balVars == <<sPhase, sWalletType, sRealAPI, sTodo, sResults, cPc, cAttempt,
             cResps, cWaits, cBal, cTx, reqs>>

mlVars == <<ml, adv, mlOp, mlPhrase, dbRow, submissions, configRow,
           metricsRow, gen, mlSteps, ctl>>

\* the controller's tables, the generation result and the step count
mlExtra == <<configRow, metricsRow, gen, mlSteps, ctl>>

batVars == <<batch>>

vars == <<rlVars, balVars, mlVars, batVars>>

nonRlVars == <<balVars, mlVars, batVars>>
nonBalVars == <<rlVars, mlVars, batVars>>
nonMlVars == <<rlVars, balVars, batVars>>
nonBatVars == <<rlVars, balVars>>

(***************************************************************************)
(* Bounds of the model                                                     *)
(***************************************************************************)
MaxAdds == 3        \* add() calls explored
MaxTime == 1006     \* the clock runs freely up to here, then only for timers
Epoch == 1000       \* Date.now() when the limiter is constructed
Callers == {"c1", "c2"}
RequestsPerSecondSet == {250, 500}

(***************************************************************************)
(* Each specification below runs one component; the state of the others    *)
(* rests at these values.                                                  *)
(***************************************************************************)
RLIdle ==
    /\ now = Epoch
    /\ minInterval = 0
    /\ queue = <<>>
    /\ processing = FALSE
    /\ lastCall = 0
    /\ items = <<>>
    /\ promise = <<>>
    /\ loops = <<>>
    /\ started = <<>>

BalIdle ==
    /\ sPhase = "idle"
    /\ sWalletType = "none"
    /\ sRealAPI = FALSE
    /\ sTodo = <<>>
    /\ sResults = <<>>
    /\ cPc = "none"
    /\ cAttempt = 0
    /\ cResps = <<>>
    /\ cWaits = <<>>
    /\ cBal = 0
    /\ cTx = 0
    /\ reqs = <<>>

\* no batch scan has been requested
NoBatch == [pc |-> "idle"]
BatIdle == batch = NoBatch

\* A JavaScript Map is a function on the keys it holds
EmptyMap == [k \in {} |-> 0]

\* initializeMLState: the baseline state
FreshMLState(t) ==
    [wordFrequency |-> EmptyMap,
     positionPreferences |-> EmptyMap,
     wordPairs |-> EmptyMap,
     successPatterns |-> <<>>,
     totalSuccesses |-> 0,
     totalAttempts |-> 0,
     lastUpdated |-> t]

\* config.maxHistorySize of the advanced state. The source sets 100; the
\* model keeps the history this short so that eviction happens within the
\* learning calls it explores.
MaxHistorySize == 2

\* initializeAdvancedMLState: the config block of a fresh state. Rates and
\* weights are in hundredths (0.95 is 95).
DefaultAdvancedConfig ==
    [decayRate |-> 95,
     minPatternAge |-> 7,
     maxHistorySize |-> MaxHistorySize,
     ngramWeight |-> 50,
     checksumWeight |-> 30]

\* initializeAdvancedMLState: the fresh state
FreshAdvancedState(t) ==
    [bigrams |-> EmptyMap,
     trigrams |-> EmptyMap,
     quadgrams |-> EmptyMap,
     firstWordFrequency |-> EmptyMap,
     lastWordFrequency |-> EmptyMap,
     patternAges |-> EmptyMap,
     patternScores |-> EmptyMap,
     checksumPatterns |-> EmptyMap,
     averageWordLength |-> 0,
     wordLengthDistribution |-> EmptyMap,
     phraseEntropy |-> 0,
     positionEntropy |-> EmptyMap,
     successBy12Words |-> 0,
     recentSuccesses |-> <<>>,
     config |-> DefaultAdvancedConfig,
     successBy24Words |-> 0,
     totalSuccesses |-> 0,
     totalAttempts |-> 0,
     lastUpdated |-> t]

\* migration 0003_add_ml_state.sql: the initial row, in the format of
\* serializeMLState; migration 0006 adds the counter columns
InitialRow ==
    [state_data |-> [wordFrequency |-> {}, positionPreferences |-> {},
                     wordPairs |-> {}, successPatterns |-> <<>>,
                     totalSuccesses |-> 0, totalAttempts |-> 0,
                     lastUpdated |-> [iso |-> 0]],
     total_successes |-> 0,
     total_attempts |-> 0,
     last_updated |-> 0]

\* DEFAULT_ML_CONFIG, and the row migration 0004_add_ml_controller.sql puts
\* into ml_config. Rates and weights are in hundredths.
DEFAULT_ML_CONFIG ==
    [learningRate |-> 10,
     decayFactor |-> 95,
     minConfidence |-> 10,
     maxPatternAge |-> 30,
     enableFrequencyLearning |-> TRUE,
     enablePositionalLearning |-> TRUE,
     enableCorrelationLearning |-> TRUE,
     hybridWeights |-> [frequency |-> 30, positional |-> 40, correlation |-> 30],
     autoSwitchThresholds |->
         [minSuccessesForFrequency |-> 10,
          minSuccessesForPositional |-> 50,
          minSuccessesForHybrid |-> 100],
     trackPerformance |-> TRUE,
     performanceWindow |-> 100]

InitialConfigRow == [config_data |-> DEFAULT_ML_CONFIG]

\* loadMetrics: the metrics it returns when nothing is stored, and the row
\* migration 0004 puts into ml_metrics, in the format of saveMetrics
EmptyMetricsData ==
    [strategyPerformance |-> {},
     recentAttempts |-> <<>>,
     bestStrategy |-> "random",
     worstStrategy |-> "random",
     improvementRate |-> 0,
     confidence |-> 0]

InitialMetricsRow == [metrics_data |-> EmptyMetricsData]

\* getMLStats was not called
NoStats ==
    [totalSuccesses |-> 0, totalAttempts |-> 0, successRate |-> 0,
     learnedWords |-> 0, learnedPositions |-> 0, learnedPairs |-> 0,
     recommendedStrategy |-> "none", efficiency |-> 0]

\* no generate or stats call was made yet
NoGen ==
    [op |-> "none", strategy |-> "none", actual |-> "none", wordCount |-> 0,
     random |-> <<0, 0>>, words |-> <<>>, stats |-> NoStats]

\* new MLController(db): `this.config = { ...DEFAULT_ML_CONFIG, ...config }`
\* and `this.metrics = null`; an absent value is the empty sequence. `threw`,
\* `input` and `exported` record the last call made on the object: whether
\* it threw, its argument, and what exportState returned.
NewController ==
    [config |-> DEFAULT_ML_CONFIG, metrics |-> <<>>, threw |-> FALSE,
     input |-> <<>>, exported |-> <<>>]

MlIdle ==
    /\ ml = FreshMLState(Epoch)
    /\ adv = FreshAdvancedState(Epoch)
    /\ mlOp = "none"
    /\ mlPhrase = <<>>
    /\ dbRow = <<InitialRow>>
    /\ submissions = <<>>
    /\ configRow = <<InitialConfigRow>>
    /\ metricsRow = <<InitialMetricsRow>>
    /\ gen = NoGen
    /\ mlSteps = 0
    /\ ctl = NewController

(***************************************************************************)
(* RateLimiter                                                             *)
(***************************************************************************)
\* constructor: this.minInterval = 1000 / requestsPerSecond
MinIntervalOf(requestsPerSecond) == 1000 \div requestsPerSecond

\* process(): `if (this.processing || this.queue.length === 0) return`
ProcessGuard_NoFlag(isProcessing, q) == Len(q) = 0
ProcessReturnsEarly(isProcessing, q) == isProcessing \/ Len(q) = 0

\* process(): `if (timeSinceLastCall < this.minInterval)`
WaitNeeded_Never(t, lc, mi) == FALSE
WaitNeeded(t, lc, mi) == (t - lc) < mi

\* process(): the setTimeout delay, `this.minInterval - timeSinceLastCall`
WaitDelay(t, lc, mi) == mi - (t - lc)

\* process(): `this.queue.shift()` takes the item at the front of the queue
ShiftIndex_Pop(q) == Len(q)
ShiftIndex(q) == 1

RemoveAt(q, i) == [k \in 1..(Len(q) - 1) |-> IF k < i THEN q[k] ELSE q[k + 1]]

\* add(): the queued wrapper catches what fn throws and rejects the promise,
\* so the wrapper itself never throws into process()
WrapperThrows_OnError(outcome) == outcome = "rejected"
WrapperThrows(outcome) == FALSE

\* One pass of process() from the `while` test to its next await (or return):
\* what the loop, the queue, lastCall and the processing flag become.
Drain(q, lc, t, mi) ==
    IF Len(q) = 0
    THEN [pc |-> "done", wakeAt |-> 0, item |-> 0, q |-> q, lc |-> lc,
          processing |-> FALSE]
    ELSE IF WaitNeeded(t, lc, mi)
    THEN [pc |-> "sleep", wakeAt |-> t + WaitDelay(t, lc, mi), item |-> 0,
          q |-> q, lc |-> lc, processing |-> TRUE]
    ELSE [pc |-> "work", wakeAt |-> 0, item |-> q[ShiftIndex(q)],
          q |-> RemoveAt(q, ShiftIndex(q)), lc |-> t, processing |-> TRUE]

\* process() after its timer await: `const fn = this.queue.shift(); if (fn) {...}`
\* and, when the queue turned out empty, on to the `while` test again
AfterSleep(q, lc, t, mi) ==
    IF Len(q) > 0
    THEN [pc |-> "work", wakeAt |-> 0, item |-> q[ShiftIndex(q)],
          q |-> RemoveAt(q, ShiftIndex(q)), lc |-> t, processing |-> TRUE]
    ELSE Drain(q, lc, t, mi)

LoopRec(d) == [pc |-> d.pc, wakeAt |-> d.wakeAt, item |-> d.item]

StartLog(d, l, t) ==
    IF d.pc = "work"
    THEN Append(started, [item |-> d.item, time |-> t, loop |-> l])
    ELSE started

InitRL ==
    /\ BatIdle
    /\ now = Epoch
    /\ minInterval \in {MinIntervalOf(r) : r \in RequestsPerSecondSet}
    /\ queue = <<>>
    /\ processing = FALSE
    /\ lastCall = 0
    /\ items = <<>>
    /\ promise = <<>>
    /\ loops = <<>>
    /\ started = <<>>
    /\ BalIdle
    /\ MlIdle

\* add(fn): push the wrapper, then the synchronous part of process()
Add(c) ==
    /\ Len(items) < MaxAdds
    /\ LET n == Len(items) + 1
           q1 == Append(queue, n)
       IN /\ items' = Append(items, c)
          /\ promise' = Append(promise, "pending")
          /\ IF ProcessReturnsEarly(processing, q1)
             THEN /\ queue' = q1
                  /\ UNCHANGED <<processing, lastCall, loops, started>>
             ELSE LET d == Drain(q1, lastCall, now, minInterval)
                      l == Len(loops) + 1
                  IN /\ queue' = d.q
                     /\ lastCall' = d.lc
                     /\ processing' = d.processing
                     /\ loops' = Append(loops, LoopRec(d))
                     /\ started' = StartLog(d, l, now)
    /\ UNCHANGED <<now, minInterval>>
    /\ UNCHANGED nonRlVars

\* the setTimeout of process() fires: never before its delay has passed
TimerFire(l) ==
    /\ l \in 1..Len(loops)
    /\ loops[l].pc = "sleep"
    /\ now >= loops[l].wakeAt
    /\ LET d == AfterSleep(queue, lastCall, now, minInterval)
       IN /\ queue' = d.q
          /\ lastCall' = d.lc
          /\ processing' = d.processing
          /\ loops' = [loops EXCEPT ![l] = LoopRec(d)]
          /\ started' = StartLog(d, l, now)
    /\ UNCHANGED <<now, minInterval, items, promise>>
    /\ UNCHANGED nonRlVars

\* the work of the running item ends: the wrapper resolves or rejects the
\* promise of that item, then returns to the `await fn()` of process()
FnSettle(l, outcome) ==
    /\ l \in 1..Len(loops)
    /\ loops[l].pc = "work"
    /\ promise' = [promise EXCEPT ![loops[l].item] = outcome]
    /\ loops' = [loops EXCEPT ![l].pc =
                    IF WrapperThrows(outcome) THEN "dead" ELSE "resume"]
    /\ UNCHANGED <<now, minInterval, queue, processing, lastCall, items, started>>
    /\ UNCHANGED nonRlVars

\* process() continues after `await fn()`: the next pass of the while loop
Resume(l) ==
    /\ l \in 1..Len(loops)
    /\ loops[l].pc = "resume"
    /\ LET d == Drain(queue, lastCall, now, minInterval)
       IN /\ queue' = d.q
          /\ lastCall' = d.lc
          /\ processing' = d.processing
          /\ loops' = [loops EXCEPT ![l] = LoopRec(d)]
          /\ started' = StartLog(d, l, now)
    /\ UNCHANGED <<now, minInterval, items, promise>>
    /\ UNCHANGED nonRlVars

TimerPending == \E l \in 1..Len(loops) : loops[l].pc = "sleep" /\ loops[l].wakeAt > now

\* the wall clock advances
Tick ==
    /\ now < MaxTime \/ TimerPending
    /\ now' = now + 1
    /\ UNCHANGED <<minInterval, queue, processing, lastCall, items, promise,
                   loops, started>>
    /\ UNCHANGED nonRlVars

NextRL ==
    \/ \E c \in Callers : Add(c)
    \/ \E l \in 1..MaxAdds : TimerFire(l)
    \/ \E l \in 1..MaxAdds : FnSettle(l, "resolved")
    \/ \E l \in 1..MaxAdds : FnSettle(l, "rejected")
    \/ \E l \in 1..MaxAdds : Resume(l)
    \/ Tick

SpecRL == InitRL /\ [][NextRL]_vars

\* The event loop runs every ready callback, timers fire, the clock advances,
\* and (the premise of the progress claim) the work of every item terminates.
FairSpecRL ==
    /\ SpecRL
    /\ WF_vars(Tick)
    /\ \A l \in 1..MaxAdds :
          /\ WF_vars(TimerFire(l))
          /\ WF_vars(Resume(l))
          /\ WF_vars(FnSettle(l, "resolved") \/ FnSettle(l, "rejected"))

ActiveLoops == {l \in 1..Len(loops) : loops[l].pc \in {"sleep", "work", "resume"}}
WorkingLoops == {l \in 1..Len(loops) : loops[l].pc = "work"}
StartedItems == {started[k].item : k \in 1..Len(started)}
QueuedItems == {queue[k] : k \in 1..Len(queue)}

(***************************************************************************)
(* C1: work items are started in exactly the order in which they were      *)
(* submitted: the k-th start is the start of the k-th submitted item, so   *)
(* no item starts before an item submitted earlier.                        *)
(***************************************************************************)
C1_FifoOrder == \A k \in 1..Len(started) : started[k].item = k

\* two callers have submitted, one item waited in the queue behind another
\* and all of them have been started
C1_Witness ==
    /\ Len(started) = MaxAdds
    /\ \E i, j \in 1..Len(items) : items[i] # items[j]
    /\ \E k \in 1..(Len(started) - 1) : started[k + 1].loop = started[k].loop

(***************************************************************************)
(* C2: the start times of two consecutively started items differ by at     *)
(* least minInterval = 1000/r ms, also across drain loops; hence k starts  *)
(* span at least (k-1) * 1000/r ms from the first to the last.             *)
(***************************************************************************)
C2_Spacing ==
    /\ \A k \in 1..(Len(started) - 1) :
          started[k + 1].time - started[k].time >= minInterval
    /\ Len(started) >= 1 =>
          started[Len(started)].time - started[1].time
              >= (Len(started) - 1) * minInterval

\* two consecutive starts made by two separate drain loops, the second one
\* delayed to exactly the minimum interval
C2_Witness ==
    \E k \in 1..(Len(started) - 1) :
        /\ started[k + 1].loop # started[k].loop
        /\ started[k + 1].time - started[k].time = minInterval

(***************************************************************************)
(* C3: every submitted item is eventually started and its promise settles  *)
(* (given that the work of every item terminates); a promise is settled    *)
(* only by the end of its own item's work, never rejected for load; no     *)
(* item is dropped; a failed item does not stop the items behind it.       *)
(***************************************************************************)
C3_NoDrop ==
    \A i \in 1..Len(items) :
        \/ i \in QueuedItems
        \/ \E l \in WorkingLoops : loops[l].item = i
        \/ promise[i] # "pending"

C3_OwnSettle ==
    \A i \in 1..Len(items) :
        promise'[i] # promise[i] =>
            /\ promise[i] = "pending"
            /\ \E l \in WorkingLoops : loops[l].item = i

C3_Progress ==
    /\ []C3_NoDrop
    /\ [][C3_OwnSettle]_vars
    /\ \A i \in 1..MaxAdds :
          (Len(items) >= i) ~> (i \in StartedItems /\ promise[i] # "pending")

\* an item's work failed and an item submitted behind it was still started
\* and settled
C3_Witness ==
    \E i, j \in 1..Len(items) :
        /\ i < j
        /\ promise[i] = "rejected"
        /\ promise[j] = "resolved"

(***************************************************************************)
(* C4: at most one drain loop is active and at most one work item runs at  *)
(* any time; a non-empty queue always has an active drain loop; the        *)
(* processing flag is set exactly while a drain loop is active, so it is   *)
(* false when the limiter is idle with an empty queue.                     *)
(***************************************************************************)
C4_SingleDrain ==
    /\ Cardinality(ActiveLoops) <= 1
    /\ Cardinality(WorkingLoops) <= 1
    /\ Len(queue) > 0 => ActiveLoops # {}
    /\ (ActiveLoops = {} /\ Len(queue) = 0) => processing = FALSE
    /\ processing = (ActiveLoops # {})

\* submissions from two callers arrived while a drain loop was sleeping or
\* working, and an earlier drain loop has already finished
C4_Witness ==
    /\ Len(queue) >= 2
    /\ \E i, j \in QueuedItems : items[i] # items[j]
    /\ ActiveLoops # {}
    /\ \E l \in 1..Len(loops) : loops[l].pc = "done"

(***************************************************************************)
(* Balance checking: scanSeedPhrase -> checkWalletBalance ->               *)
(* checkWalletBalanceWithRetry -> checkEthereumBalance/checkBitcoinBalance *)
(*                                                                         *)
(* Amounts are integers: an Etherscan balance is counted in gwei (1e9 wei),*)
(* a Blockchain.com balance in satoshi, a price in whole USD.  A string    *)
(* made by toFixed is a record of its digits: val / 10^dec.                *)
(***************************************************************************)
MaxRetries == 3            \* checkWalletBalanceWithRetry: maxRetries = 3
EthFallbackPrice == 2000   \* checkEthereumBalance: `: 2000`
BtcPrice == 45000          \* checkBitcoinBalance: btcPrice

WalletTypes == {"ETH", "BTC", "SOL", "both", "all"}
EthGweiValues == {0, 4, 500000}      \* balances Etherscan may report
BtcSatoshiValues == {0, 20000}       \* balances Blockchain.com may report
TxHexValues == {"absent", "0x0", "0x3"}
EthUsdValues == {"absent", "2500.00"}

\* scanSeedPhrase: typesToCheck
TypesToCheck_NoSolana(walletType) ==
    IF walletType \in {"all", "both"} THEN <<"ETH", "BTC">> ELSE <<walletType>>
TypesToCheck(walletType) ==
    IF walletType = "all" THEN <<"ETH", "BTC", "SOL">>
    ELSE IF walletType = "both" THEN <<"ETH", "BTC">>
    ELSE <<walletType>>

\* deriveWalletAddress(seedPhrase, type): the address carries the currency
\* it was derived for
DerivedAddress(type) == [derivedFor |-> type]

\* String literals and toFixed results
Str(val, dec) == [text |-> "num", val |-> val, dec |-> dec]
StrNaN == [text |-> "NaN", val |-> 0, dec |-> 0]
Undefined == -1

\* (gwei / 1e9).toFixed(8): rounded to 1e-8 ETH
EthToFixed8(gwei) == Str((gwei + 5) \div 10, 8)
\* (gwei / 1e9 * price).toFixed(2): rounded to cents
EthUsdToFixed2(gwei, price) == Str((gwei * price + 5000000) \div 10000000, 2)
\* (satoshi / 1e8).toFixed(8)
BtcToFixed8(sat) == Str(sat, 8)
\* (satoshi / 1e8 * btcPrice).toFixed(2)
BtcUsdToFixed2(sat, price) == Str((sat * price + 500000) \div 1000000, 2)

\* parseInt(result, 16) of the transaction-count reply
ParseIntHex(h) == IF h = "0x3" THEN 3 ELSE 0
\* parseFloat(ethusd)
ParseFloat(p) == IF p = "2500.00" THEN 2500 ELSE 0

\* the fallback object of both checkers and of checkWalletBalanceWithRetry
ZeroResult(address) ==
    [address |-> address, balance |-> Str(0, 0), balanceUSD |-> Str(0, 0),
     transactionCount |-> 0, hasBalance |-> FALSE]

\* What the upstream may answer.  kind: the fetch rejected ("transport"), the
\* body is no JSON ("nonjson") or it is JSON ("json").  status: Etherscan's
\* status field, or for Blockchain.com whether res.ok.  numeric: whether
\* `result` is an integer string.  fields: whether the Blockchain.com body
\* has final_balance and n_tx.
Resp(kind, status, numeric, fields, val, tx, ntx) ==
    [kind |-> kind, status |-> status, numeric |-> numeric, fields |-> fields,
     val |-> val, tx |-> tx, ntx |-> ntx]
Transport == Resp("transport", "-", FALSE, FALSE, 0, "absent", 0)
NonJson == Resp("nonjson", "-", FALSE, FALSE, 0, "absent", 0)

EthBalanceResps ==
    {Transport, NonJson, Resp("json", "0", FALSE, FALSE, 0, "absent", 0),
     Resp("json", "1", FALSE, FALSE, 0, "absent", 0)}
    \cup {Resp("json", "1", TRUE, FALSE, v, "absent", 0) : v \in EthGweiValues}
EthTxResps ==
    {Transport, NonJson}
    \cup {Resp("json", "-", FALSE, FALSE, 0, h, 0) : h \in TxHexValues}
EthPriceResps ==
    {Transport, NonJson}
    \cup {Resp("json", "-", FALSE, FALSE, ParseFloat(p), p, 0) : p \in EthUsdValues}
BtcResps ==
    {Transport, Resp("nonjson", "ok", FALSE, FALSE, 0, "absent", 0),
     Resp("nonjson", "notok", FALSE, FALSE, 0, "absent", 0),
     Resp("json", "notok", FALSE, FALSE, 0, "absent", 0)}
    \cup {Resp("json", "ok", TRUE, TRUE, v, "absent", n) :
              v \in BtcSatoshiValues, n \in {0, 2}}

\* An outbound request: the host it goes to, the limiter it went through,
\* and the address it carries
Request(forType, host, limiter, what) ==
    [forType |-> forType, host |-> host, limiter |-> limiter, what |-> what,
     address |-> DerivedAddress(forType)]

\* checkWalletBalanceWithRetry: `if (type === 'ETH') ... else ...`
UsesEthereumChecker(type) == type = "ETH"

\* the request a checker sends first
FirstRequest(type) ==
    IF UsesEthereumChecker(type)
    THEN Request(type, "api.etherscan.io", "etherscanLimiter", "balance")
    ELSE Request(type, "blockchain.info", "blockchainLimiter", "rawaddr")

\* checkWalletBalance: where the check of `type` first awaits
FirstPc(type, real) ==
    IF ~real THEN "sim"
    ELSE IF UsesEthereumChecker(type) THEN "eth_balance" ELSE "btc_raw"

\* what a function gave back to its caller: a value (threw would mark an
\* exception; neither checker lets one out)
Returned(v) == [threw |-> FALSE, value |-> v]

\* the catch block of checkEthereumBalance and of checkBitcoinBalance
CaughtByChecker(address) == Returned(ZeroResult(address))

\* checkEthereumBalance: `if (response.status === '1')`
EthStatusOk(r) == r.status = "1"

\* checkBitcoinBalance: `if (!res.ok) throw`
BtcResOk_Unchecked(r) == TRUE
BtcResOk(r) == r.status = "ok"

\* a reply that lets the awaited limiter.add(...) resolve with a JSON body
EthReplyArrives(r) == r.kind = "json"

\* checkEthereumBalance after the price reply: the returned object
EthResult(address, gwei, txCount, r) ==
    LET ethPrice == IF r.tx # "absent" THEN ParseFloat(r.tx) ELSE EthFallbackPrice
    IN [address |-> address,
        balance |-> EthToFixed8(gwei),
        balanceUSD |-> EthUsdToFixed2(gwei, ethPrice),
        transactionCount |-> txCount,
        hasBalance |-> gwei > 0]

\* checkBitcoinBalance: the whole function, given the upstream reply
CheckBitcoinBalance(address, r) ==
    IF r.kind = "transport" THEN CaughtByChecker(address)
    ELSE IF ~BtcResOk(r) THEN CaughtByChecker(address)
    ELSE IF r.kind = "nonjson" THEN CaughtByChecker(address)
    ELSE IF ~r.fields
    THEN Returned([address |-> address, balance |-> StrNaN, balanceUSD |-> StrNaN,
                   transactionCount |-> Undefined, hasBalance |-> FALSE])
    ELSE Returned([address |-> address,
                   balance |-> BtcToFixed8(r.val),
                   balanceUSD |-> BtcUsdToFixed2(r.val, BtcPrice),
                   transactionCount |-> r.ntx,
                   hasBalance |-> r.val > 0])

Pow2(n) == IF n = 0 THEN 1 ELSE IF n = 1 THEN 2 ELSE 4

\* checkWalletBalanceWithRetry: the backoff delay after a failed attempt
BackoffDelay(attempt) == 1000 * Pow2(attempt)

InitBal ==
    /\ BatIdle
    /\ RLIdle
    /\ BalIdle
    /\ MlIdle

\* checkWalletBalanceWithRetry after its loop: the fallback object is returned
RetriesExhausted(address) == Returned(ZeroResult(address))

\* scanSeedPhrase pushes the result of one type and goes on to the next type,
\* or returns; an exception out of checkWalletBalance would end the scan
CheckDone(outcome) ==
    LET type == Head(sTodo)
        rest == IF outcome.threw THEN <<>> ELSE Tail(sTodo)
    IN /\ sResults' = Append(sResults,
              [type |-> type, threw |-> outcome.threw, result |-> outcome.value,
               attempts |-> cAttempt + 1, waits |-> cWaits])
       /\ sTodo' = rest
       /\ cAttempt' = 0
       /\ cWaits' = <<>>
       /\ cBal' = 0
       /\ cTx' = 0
       /\ IF rest = <<>>
          THEN /\ sPhase' = IF outcome.threw THEN "failed" ELSE "done"
               /\ cPc' = "none"
               /\ UNCHANGED reqs
          ELSE /\ sPhase' = "checking"
               /\ cPc' = FirstPc(Head(rest), sRealAPI)
               /\ reqs' = IF sRealAPI THEN Append(reqs, FirstRequest(Head(rest)))
                          ELSE reqs

\* checkWalletBalanceWithRetry: one attempt has ended with `inner`
AttemptEnds(inner) ==
    IF ~inner.threw
    THEN CheckDone(inner)
    ELSE IF cAttempt + 1 < MaxRetries
    THEN \* catch: backoff, then the next attempt calls the checker again
         /\ cWaits' = Append(cWaits, BackoffDelay(cAttempt))
         /\ cAttempt' = cAttempt + 1
         /\ cPc' = FirstPc(Head(sTodo), TRUE)
         /\ reqs' = Append(reqs, FirstRequest(Head(sTodo)))
         /\ cBal' = 0
         /\ cTx' = 0
         /\ UNCHANGED <<sPhase, sTodo, sResults>>
    ELSE \* the loop is over: the fallback object
         CheckDone(RetriesExhausted(DerivedAddress(Head(sTodo))))

\* scanSeedPhrase(seedPhrase, walletType, useRealAPI) up to its first await
\* on a balance
ScanStart(walletType, real) ==
    /\ sPhase = "idle"
    /\ sWalletType' = walletType
    /\ sRealAPI' = real
    /\ sTodo' = TypesToCheck(walletType)
    /\ sPhase' = "checking"
    /\ cPc' = FirstPc(Head(TypesToCheck(walletType)), real)
    /\ reqs' = IF real THEN <<FirstRequest(Head(TypesToCheck(walletType)))>>
               ELSE <<>>
    /\ cResps' = <<>>
    /\ UNCHANGED <<sResults, cAttempt, cWaits, cBal, cTx>>
    /\ UNCHANGED nonBalVars

\* checkWalletBalance without the real API: a random result, no request
SimResult(hasBalance) ==
    /\ cPc = "sim"
    /\ cResps' = cResps
    /\ CheckDone(Returned(
           IF hasBalance
           THEN [ZeroResult(DerivedAddress(Head(sTodo))) EXCEPT
                    !.balance = Str(1, 8), !.balanceUSD = Str(1, 2),
                    !.transactionCount = 1, !.hasBalance = TRUE]
           ELSE ZeroResult(DerivedAddress(Head(sTodo)))))
    /\ UNCHANGED <<sWalletType, sRealAPI>>
    /\ UNCHANGED nonBalVars

\* checkEthereumBalance: the balance reply (or failure) arrives
EthBalanceResp(r) ==
    /\ cPc = "eth_balance"
    /\ cResps' = Append(cResps, [stage |-> "balance", type |-> Head(sTodo), r |-> r])
    /\ IF EthReplyArrives(r) /\ EthStatusOk(r) /\ r.numeric
       THEN \* BigInt(response.result), then the transaction-count request
            /\ cBal' = r.val
            /\ cPc' = "eth_tx"
            /\ reqs' = Append(reqs, Request(Head(sTodo), "api.etherscan.io",
                                            "etherscanLimiter", "txcount"))
            /\ UNCHANGED <<sPhase, sTodo, sResults, cAttempt, cWaits, cTx>>
       ELSE \* the await threw, the status is not '1' or BigInt threw: catch
            AttemptEnds(CaughtByChecker(DerivedAddress(Head(sTodo))))
    /\ UNCHANGED <<sWalletType, sRealAPI>>
    /\ UNCHANGED nonBalVars

\* checkEthereumBalance: the transaction-count reply arrives
EthTxResp(r) ==
    /\ cPc = "eth_tx"
    /\ cResps' = Append(cResps, [stage |-> "txcount", type |-> Head(sTodo), r |-> r])
    /\ IF EthReplyArrives(r)
       THEN /\ cTx' = IF r.tx # "absent" THEN ParseIntHex(r.tx) ELSE 0
            /\ cPc' = "eth_price"
            /\ reqs' = Append(reqs, Request(Head(sTodo), "api.etherscan.io",
                                            "etherscanLimiter", "ethprice"))
            /\ UNCHANGED <<sPhase, sTodo, sResults, cAttempt, cWaits, cBal>>
       ELSE AttemptEnds(CaughtByChecker(DerivedAddress(Head(sTodo))))
    /\ UNCHANGED <<sWalletType, sRealAPI>>
    /\ UNCHANGED nonBalVars

\* checkEthereumBalance: the price reply arrives
EthPriceResp(r) ==
    /\ cPc = "eth_price"
    /\ cResps' = Append(cResps, [stage |-> "price", type |-> Head(sTodo), r |-> r])
    /\ IF EthReplyArrives(r)
       THEN AttemptEnds(Returned(EthResult(DerivedAddress(Head(sTodo)), cBal, cTx, r)))
       ELSE AttemptEnds(CaughtByChecker(DerivedAddress(Head(sTodo))))
    /\ UNCHANGED <<sWalletType, sRealAPI>>
    /\ UNCHANGED nonBalVars

\* checkBitcoinBalance: the rawaddr reply arrives
BtcResp(r) ==
    /\ cPc = "btc_raw"
    /\ cResps' = Append(cResps, [stage |-> "balance", type |-> Head(sTodo), r |-> r])
    /\ AttemptEnds(CheckBitcoinBalance(DerivedAddress(Head(sTodo)), r))
    /\ UNCHANGED <<sWalletType, sRealAPI>>
    /\ UNCHANGED nonBalVars

NextBal ==
    \/ \E w \in WalletTypes, real \in BOOLEAN : ScanStart(w, real)
    \/ \E h \in BOOLEAN : SimResult(h)
    \/ \E r \in EthBalanceResps : EthBalanceResp(r)
    \/ \E r \in EthTxResps : EthTxResp(r)
    \/ \E r \in EthPriceResps : EthPriceResp(r)
    \/ \E r \in BtcResps : BtcResp(r)

SpecBal == InitBal /\ [][NextBal]_vars

\* the replies the check of `type` received, in order
RepliesOf(type) == SelectSeq(cResps, LAMBDA e : e.type = type)
StageReplies(type, stage) == SelectSeq(cResps, LAMBDA e : e.type = type /\ e.stage = stage)

\* a transport failure, an unreadable body or a non-success reply
RespFailed(r) ==
    \/ r.kind = "transport"
    \/ r.kind = "nonjson"
    \/ r.status \in {"0", "notok"}

AllFailed(seq) == Len(seq) > 0 /\ \A j \in 1..Len(seq) : RespFailed(seq[j].r)

\* the currency an upstream host serves, and the one a limiter was made for
EndpointCurrency(host) == IF host = "api.etherscan.io" THEN "ETH" ELSE "BTC"
LimiterCurrency(limiter) == IF limiter = "etherscanLimiter" THEN "ETH" ELSE "BTC"

(***************************************************************************)
(* C5: checkWalletBalanceWithRetry never throws, and when every upstream   *)
(* request of a check failed it returns balance '0', balanceUSD '0',       *)
(* transactionCount 0 and hasBalance = false.                              *)
(***************************************************************************)
C5_ZeroOnFailure ==
    \A k \in 1..Len(sResults) :
        sRealAPI =>
            /\ ~sResults[k].threw
            /\ AllFailed(RepliesOf(sResults[k].type)) =>
                  sResults[k].result = ZeroResult(DerivedAddress(sResults[k].type))

\* a scan of all three currencies has ended; the Ethereum fetch was
\* rejected and Blockchain.com answered with a non-success status
C5_Witness ==
    /\ sPhase = "done"
    /\ sRealAPI
    /\ Len(sResults) = 3
    /\ \E j \in 1..Len(cResps) : cResps[j].type = "ETH" /\ cResps[j].r.kind = "transport"
    /\ \E j \in 1..Len(cResps) : cResps[j].type = "BTC" /\ cResps[j].r.status = "notok"
    /\ \A k \in 1..2 : sResults[k].result = ZeroResult(DerivedAddress(sResults[k].type))

(***************************************************************************)
(* C6: when the upstream balance query fails, the query is re-issued: 3    *)
(* attempts in all, 1 s of backoff after the first failure and 2 s after   *)
(* the second, and the zero-balance result only after the 3rd failure.     *)
(***************************************************************************)
C6_RetriesWithBackoff ==
    \A k \in 1..Len(sResults) :
        (sRealAPI /\ AllFailed(StageReplies(sResults[k].type, "balance"))) =>
            /\ Len(StageReplies(sResults[k].type, "balance")) = MaxRetries
            /\ sResults[k].attempts = MaxRetries
            /\ sResults[k].waits = <<1000, 2000>>

(***************************************************************************)
(* C7: when the Ethereum balance query succeeds and the price lookup       *)
(* fails, the result still carries the queried balance and transaction     *)
(* count, hasBalance is true for a non-zero balance, and balanceUSD is     *)
(* computed from the fallback price.                                       *)
(***************************************************************************)
C7_PriceFailureKeepsBalance ==
    \A k \in 1..Len(sResults) :
        LET t == sResults[k].type
            bal == StageReplies(t, "balance")
            tx == StageReplies(t, "txcount")
            price == StageReplies(t, "price")
        IN (/\ sRealAPI
            /\ Len(price) = 1
            /\ price[1].r.kind # "json" \/ price[1].r.tx = "absent") =>
               /\ sResults[k].result.balance = EthToFixed8(bal[1].r.val)
               /\ sResults[k].result.hasBalance = (bal[1].r.val > 0)
               /\ sResults[k].result.transactionCount =
                      (IF tx[1].r.tx # "absent" THEN ParseIntHex(tx[1].r.tx) ELSE 0)
               /\ sResults[k].result.balanceUSD =
                      EthUsdToFixed2(bal[1].r.val, EthFallbackPrice)

(***************************************************************************)
(* C8: every outbound request of a balance check for currency c goes to    *)
(* the endpoint of c, through a limiter, and that limiter is the one of c. *)
(***************************************************************************)
C8_OwnEndpointOwnLimiter ==
    \A j \in 1..Len(reqs) :
        /\ reqs[j].limiter # "none"
        /\ EndpointCurrency(reqs[j].host) = reqs[j].forType
        /\ LimiterCurrency(reqs[j].limiter) = reqs[j].forType
        /\ reqs[j].address = DerivedAddress(reqs[j].forType)

(***************************************************************************)
(* Basic learning state: learnFromSuccess, updateAttempts                  *)
(*                                                                         *)
(* A seed phrase string is a sequence of pieces: a word, or " " for a run  *)
(* of extra whitespace before, between or after the words.                 *)
(***************************************************************************)
MaxPhraseLen == 2     \* pieces of an enumerated phrase
MaxLearns == 2        \* learnFromSuccess calls explored
MaxAttempts == 2      \* totalAttempts explored

RawPieces == {"abandon", "Ability", " "}
AttemptBatches == {1, 2}

\* the 12-word phrase of the documented scenario, and a phrase that repeats
\* a word pair
ScenarioPhrase ==
    <<"abandon", "ability", "able", "about", "above", "absent",
      "absorb", "abstract", "absurd", "abuse", "access", "accident">>
RepeatingPhrase == <<"abandon", "abandon", " ", "abandon">>

Phrases ==
    UNION {[1..n -> RawPieces] : n \in 0..MaxPhraseLen}
        \cup {ScenarioPhrase, RepeatingPhrase}

\* String.prototype.toLowerCase on one word
ToLowerCase(w) == IF w = "Ability" THEN "ability" ELSE w

\* seedPhrase.trim().split(/\s+/): the words between whitespace; the empty
\* string splits into one empty word
TrimSplit(phrase) ==
    LET ws == SelectSeq(phrase, LAMBDA x : x # " ")
    IN IF ws = <<>> THEN <<"">> ELSE ws

\* seedPhrase.trim().toLowerCase().split(/\s+/)
TrimLowerSplit(phrase) ==
    LET ws == TrimSplit(phrase) IN [i \in 1..Len(ws) |-> ToLowerCase(ws[i])]

\* map.get(k) || 0
Get(m, k) == IF k \in DOMAIN m THEN m[k] ELSE 0
\* map.set(k, v)
Put(m, k, v) == [x \in (DOMAIN m) \cup {k} |-> IF x = k THEN v ELSE m[x]]
\* map.set(k, (map.get(k) || 0) + 1)
Increment(m, k) == Put(m, k, Get(m, k) + 1)
\* the inner map of k, created when missing, with k2 incremented
IncrementNested(m, k, k2) ==
    Put(m, k, Increment(IF k \in DOMAIN m THEN m[k] ELSE EmptyMap, k2))

\* learnFromSuccess: `words.forEach(word => ...)` on wordFrequency
RECURSIVE WordFrequencyAfter(_, _, _)
WordFrequencyAfter(wf, words, i) ==
    IF i > Len(words) THEN wf
    ELSE WordFrequencyAfter(Increment(wf, words[i]), words, i + 1)

\* learnFromSuccess: `words.forEach((word, index) => ...)`; index is 0-based
RECURSIVE PositionPreferencesAfter(_, _, _)
PositionPreferencesAfter(pp, words, i) ==
    IF i > Len(words) THEN pp
    ELSE PositionPreferencesAfter(IncrementNested(pp, i - 1, words[i]), words, i + 1)

\* learnFromSuccess: `for (let i = 0; i < words.length - 1; i++)`
PairLoopEnd_SkipsLast(words) == Len(words) - 2
PairLoopEnd(words) == Len(words) - 1

RECURSIVE WordPairsAfter(_, _, _)
WordPairsAfter(wp, words, i) ==
    IF i > PairLoopEnd(words) THEN wp
    ELSE WordPairsAfter(IncrementNested(wp, words[i], words[i + 1]), words, i + 1)

\* learnFromSuccess(state, seedPhrase, walletType, balanceUSD)
LearnFromSuccess_NoPositions(state, seedPhrase, t) ==
    LET words == TrimLowerSplit(seedPhrase)
    IN [state EXCEPT
           !.wordFrequency = WordFrequencyAfter(@, words, 1),
           !.wordPairs = WordPairsAfter(@, words, 1),
           !.totalSuccesses = @ + 1,
           !.lastUpdated = t]
LearnFromSuccess(state, seedPhrase, t) ==
    LET words == TrimLowerSplit(seedPhrase)
    IN [state EXCEPT
           !.wordFrequency = WordFrequencyAfter(@, words, 1),
           !.positionPreferences = PositionPreferencesAfter(@, words, 1),
           !.wordPairs = WordPairsAfter(@, words, 1),
           !.totalSuccesses = @ + 1,
           !.lastUpdated = t]

\* updateAttempts(state, attempts)
UpdateAttempts(state, attempts, t) ==
    [state EXCEPT !.totalAttempts = @ + attempts, !.lastUpdated = t]

InitLearn ==
    /\ BatIdle
    /\ RLIdle
    /\ BalIdle
    /\ MlIdle

\* a caller learns from a successful phrase
Learn(seedPhrase) ==
    /\ ml.totalSuccesses < MaxLearns
    /\ ml' = LearnFromSuccess(ml, seedPhrase, now)
    /\ mlOp' = "learn"
    /\ mlPhrase' = TrimLowerSplit(seedPhrase)
    /\ UNCHANGED <<adv, dbRow, submissions>>
    /\ UNCHANGED mlExtra
    /\ UNCHANGED nonMlVars

\* a caller records scan attempts
RecordAttempts(n) ==
    /\ ml.totalAttempts + n <= MaxAttempts
    /\ ml' = UpdateAttempts(ml, n, now)
    /\ mlOp' = "attempts"
    /\ UNCHANGED <<mlPhrase, adv, dbRow, submissions>>
    /\ UNCHANGED mlExtra
    /\ UNCHANGED nonMlVars

NextLearn ==
    \/ \E p \in Phrases : Learn(p)
    \/ \E n \in AttemptBatches : RecordAttempts(n)

SpecLearn == InitLearn /\ [][NextLearn]_vars

\* every word and position a learned table may mention
KnownWords ==
    {ToLowerCase(w) : w \in RawPieces \ {" "}} \cup {""}
        \cup {ScenarioPhrase[i] : i \in 1..Len(ScenarioPhrase)}
KnownPositions == 0..(Len(ScenarioPhrase) - 1)

GetNested(m, k, k2) == IF k \in DOMAIN m THEN Get(m[k], k2) ELSE 0
Occurrences(words, w) == Cardinality({i \in 1..Len(words) : words[i] = w})
PairOccurrences(words, a, b) ==
    Cardinality({i \in 1..(Len(words) - 1) : words[i] = a /\ words[i + 1] = b})
AtPosition(words, i, w) == IF i + 1 <= Len(words) /\ words[i + 1] = w THEN 1 ELSE 0
Distinct(words) == \A i, j \in 1..Len(words) : words[i] = words[j] => i = j

(***************************************************************************)
(* C9: learning a phrase P of n tokens adds to wordFrequency[w] the number *)
(* of occurrences of w in P, adds 1 to positionPreferences[i][P[i]] for    *)
(* each index i, adds 1 to wordPairs[P[i]][P[i+1]] for each adjacent pair, *)
(* adds 1 to totalSuccesses and changes no other count nor totalAttempts;  *)
(* on a fresh state and distinct tokens every touched count is 1.          *)
(***************************************************************************)
C9_LearnStep ==
    mlOp' = "learn" =>
        LET P == mlPhrase'
        IN /\ \A w \in KnownWords :
                 Get(ml'.wordFrequency, w) = Get(ml.wordFrequency, w) + Occurrences(P, w)
           /\ \A i \in KnownPositions, w \in KnownWords :
                 GetNested(ml'.positionPreferences, i, w)
                     = GetNested(ml.positionPreferences, i, w) + AtPosition(P, i, w)
           /\ \A a, b \in KnownWords :
                 GetNested(ml'.wordPairs, a, b)
                     = GetNested(ml.wordPairs, a, b) + PairOccurrences(P, a, b)
           /\ DOMAIN ml'.wordFrequency \subseteq KnownWords
           /\ DOMAIN ml'.positionPreferences \subseteq KnownPositions
           /\ DOMAIN ml'.wordPairs \subseteq KnownWords
           /\ ml'.totalSuccesses = ml.totalSuccesses + 1
           /\ ml'.totalAttempts = ml.totalAttempts

C9_FreshDistinct ==
    (ml.totalSuccesses = 1 /\ Distinct(mlPhrase)) =>
        /\ \A i \in 1..Len(mlPhrase) :
              /\ Get(ml.wordFrequency, mlPhrase[i]) = 1
              /\ GetNested(ml.positionPreferences, i - 1, mlPhrase[i]) = 1
        /\ \A i \in 1..(Len(mlPhrase) - 1) :
              GetNested(ml.wordPairs, mlPhrase[i], mlPhrase[i + 1]) = 1

C9_Learn == [][C9_LearnStep]_vars /\ []C9_FreshDistinct

\* a second phrase was learned on top of a first one, it repeats a word
\* pair, and one of its words was written in upper case
C9_Witness ==
    /\ mlOp = "learn"
    /\ ml.totalSuccesses = 2
    /\ mlPhrase = <<"abandon", "abandon", "abandon">>
    /\ "ability" \in DOMAIN ml.wordFrequency
    /\ ml.wordPairs["abandon"]["abandon"] >= 2

(***************************************************************************)
(* Persistence of the learning states and POST /api/ml/train               *)
(*                                                                         *)
(* A JSON array of entries and a JSON object are sets of <<key, value>>;   *)
(* a JSON document is a record of its keys.                                *)
(***************************************************************************)
MaxTrain == 3         \* training submissions explored

AlternatingPhrase ==
    [i \in 1..12 |-> IF i % 2 = 1 THEN "abandon" ELSE "Ability"]
TrainPhrases ==
    {ScenarioPhrase, AlternatingPhrase, ScenarioPhrase \o ScenarioPhrase,
     <<"abandon", "Ability">>, <<" ">>, <<>>}

\* Array.from(map.entries())
Entries(m) == {<<k, m[k]>> : k \in DOMAIN m}
\* new Map(entries)
MapOf(entries) ==
    [k \in {e[1] : e \in entries} |-> (CHOOSE e \in entries : e[1] = k)[2]]
\* entries of a map of maps, and back
NestedEntries_InnerMapAsIs(m) == {<<k, {}>> : k \in DOMAIN m}
NestedEntries(m) == {<<k, Entries(m[k])>> : k \in DOMAIN m}
NestedMapOf(entries) ==
    [k \in {e[1] : e \in entries} |-> MapOf((CHOOSE e \in entries : e[1] = k)[2])]

\* Date.prototype.toISOString, and `new Date(text)` on what it wrote; a Date
\* made from a missing value is an Invalid Date
InvalidDate == -1
ToISOString(d) == [iso |-> d]
NewDate(v) == v.iso

\* stored texts that are not a JSON object: the empty string, a text
\* JSON.parse rejects, and the JSON text `null`
EmptyText == [text |-> "empty"]
GarbledText == [text |-> "garbled"]
JsonNull == [text |-> "null"]

HasKey(json, k) == k \in DOMAIN json

\* `result && result.state_data`: there is a row and its text is not empty
HasStateData(rows) == rows # <<>> /\ rows[1].state_data # EmptyText
\* JSON.parse(text) throws a SyntaxError
JsonParseThrows(text) == text = GarbledText

\* serializeMLState
SerializeMLState(state) ==
    [wordFrequency |-> Entries(state.wordFrequency),
     positionPreferences |-> NestedEntries(state.positionPreferences),
     wordPairs |-> NestedEntries(state.wordPairs),
     successPatterns |-> state.successPatterns,
     totalSuccesses |-> state.totalSuccesses,
     totalAttempts |-> state.totalAttempts,
     lastUpdated |-> ToISOString(state.lastUpdated)]

\* deserializeMLState: JSON.parse throws on a garbled text; reading a key of
\* null, and `parsed.positionPreferences.map` or `parsed.wordPairs.map` on a
\* missing key, throw a TypeError
DeserializeMLState(json) ==
    IF \/ JsonParseThrows(json)
       \/ json = JsonNull
       \/ ~HasKey(json, "positionPreferences")
       \/ ~HasKey(json, "wordPairs")
    THEN [threw |-> TRUE, value |-> FreshMLState(0)]
    ELSE [threw |-> FALSE,
          value |->
            [wordFrequency |->
                 IF HasKey(json, "wordFrequency") THEN MapOf(json.wordFrequency)
                 ELSE EmptyMap,
             positionPreferences |-> NestedMapOf(json.positionPreferences),
             wordPairs |-> NestedMapOf(json.wordPairs),
             successPatterns |->
                 IF HasKey(json, "successPatterns") THEN json.successPatterns ELSE <<>>,
             totalSuccesses |->
                 IF HasKey(json, "totalSuccesses") THEN json.totalSuccesses ELSE 0,
             totalAttempts |->
                 IF HasKey(json, "totalAttempts") THEN json.totalAttempts ELSE 0,
             lastUpdated |->
                 IF HasKey(json, "lastUpdated") THEN NewDate(json.lastUpdated)
                 ELSE InvalidDate]]

\* initializeMLState(db): `catch (error)` around the query and deserializeMLState
LoadCatches_Never(d) == FALSE
LoadCatches(d) == d.threw

\* initializeMLState(db): the stored state, or the baseline state when there
\* is no row, its text is empty, or reading it throws
InitializeMLState(rows, t) ==
    IF ~HasStateData(rows) THEN FreshMLState(t)
    ELSE LET d == DeserializeMLState(rows[1].state_data)
         IN IF LoadCatches(d) THEN FreshMLState(t) ELSE d.value

\* saveMLState: INSERT OR REPLACE INTO ml_state (id, state_data, updated_at);
\* the columns it does not name take their defaults
SaveMLState(rows, state) ==
    <<[state_data |-> SerializeMLState(state),
       total_successes |-> 0,
       total_attempts |-> 0,
       last_updated |-> 0]>>

\* resetMLState: DELETE FROM ml_state WHERE id = 1
ResetMLState(rows) == <<>>

(***************************************************************************)
(* Advanced learning state (ml-advanced)                                   *)
(*                                                                         *)
(* Pattern scores are JavaScript numbers: the model keeps them in          *)
(* thousandths, the entropy in 1/1024 bit and the average word length in   *)
(* thousandths, with truncating division.                                  *)
(***************************************************************************)
ScoreUnit == 1000          \* the score 1
ScoreFloor == 500          \* `newScore < 0.5`
FactorUnit == 10000        \* the decay factor 1
EntropyUnit == 1024        \* one bit of entropy
LengthUnit == 1000         \* the average word length 1

Min(a, b) == IF a < b THEN a ELSE b

\* words.slice(from, to): `from` and `to` count from 0, `to` is excluded.
\* slice(..).join(' ') is the key of a table; words hold no blank, so the
\* joined text and the tuple of words determine each other.
Slice(words, from, to) ==
    [i \in 1..(Min(to, Len(words)) - from) |-> words[from + i]]

\* word.length
WordLength(w) ==
    CASE w = "" -> 0
      [] w = "able" -> 4
      [] w \in {"about", "above", "abuse"} -> 5
      [] w \in {"absent", "absorb", "absurd", "access"} -> 6
      [] w \in {"abandon", "ability", "Ability"} -> 7
      [] w \in {"abstract", "accident"} -> 8

\* a Map key that is a number, and the same key once it was the property
\* name of a JSON object
NumKey(n) == <<"number", n>>
StrKey(n) == <<"string", n>>

\* learnNGrams: the key of an n-gram that starts at index i (from 0) with
\* `context` leading words
NGramKey(words, i, context) ==
    IF context = 1 THEN words[i + 1] ELSE Slice(words, i, i + context)

\* learnNGrams: `for (let i = 0; i < words.length - context; i++)`
RECURSIVE NGramsAfter(_, _, _, _)
NGramsAfter(table, words, context, i) ==
    IF i >= Len(words) - context THEN table
    ELSE NGramsAfter(
             IncrementNested(table, NGramKey(words, i, context), words[i + context + 1]),
             words, context, i + 1)

\* updateWordLengthStats: the loop over the words
RECURSIVE WordLengthsAfter(_, _, _)
WordLengthsAfter(dist, words, i) ==
    IF i > Len(words) THEN dist
    ELSE WordLengthsAfter(Increment(dist, NumKey(WordLength(words[i]))), words, i + 1)

RECURSIVE TotalLength(_, _)
TotalLength(words, i) ==
    IF i > Len(words) THEN 0 ELSE WordLength(words[i]) + TotalLength(words, i + 1)

\* updateWordLengthStats: the rolling average; totalSuccesses was already
\* incremented by the caller
AverageWordLengthAfter(avg, totalSuccesses, words) ==
    (avg * totalSuccesses + (TotalLength(words, 1) * LengthUnit) \div Len(words))
        \div (totalSuccesses + 1)

\* Array.from(map.values()).reduce((a, b) => a + b, 0)
RECURSIVE SumValues(_)
SumValues(m) ==
    IF DOMAIN m = {} THEN 0
    ELSE LET k == CHOOSE x \in DOMAIN m : TRUE
         IN m[k] + SumValues([x \in (DOMAIN m) \ {k} |-> m[x]])

\* Math.log2 of a whole number n >= 1, in 1/1024: the integer part, then
\* ten binary digits of the fraction by repeated squaring of the mantissa
RECURSIVE FloorLog2(_)
FloorLog2(n) == IF n < 2 THEN 0 ELSE 1 + FloorLog2(n \div 2)

RECURSIVE Log2Fraction(_, _, _)
Log2Fraction(mantissa, digits, weight) ==
    IF digits = 0 THEN 0
    ELSE LET sq == (mantissa * mantissa) \div 16384
         IN IF sq >= 32768
            THEN weight + Log2Fraction(sq \div 2, digits - 1, weight \div 2)
            ELSE Log2Fraction(sq, digits - 1, weight \div 2)

RECURSIVE TwoToThe(_)
TwoToThe(e) == IF e = 0 THEN 1 ELSE 2 * TwoToThe(e - 1)

Log2(n) ==
    LET e == FloorLog2(n)
    IN e * EntropyUnit
           + Log2Fraction((n * 16384) \div TwoToThe(e), 10, EntropyUnit \div 2)

\* updateEntropy: -p * log2(p) for one score, p = count / total
EntropyTerm(count, total) ==
    IF count > 0 THEN (count * (Log2(total) - Log2(count))) \div total ELSE 0

RECURSIVE EntropySum(_, _)
EntropySum(scores, total) ==
    IF DOMAIN scores = {} THEN 0
    ELSE LET k == CHOOSE x \in DOMAIN scores : TRUE
         IN EntropyTerm(scores[k], total)
                + EntropySum([x \in (DOMAIN scores) \ {k} |-> scores[x]], total)

\* updateEntropy: the Shannon entropy of the normalized pattern scores
ShannonEntropy(scores) ==
    IF DOMAIN scores = {} THEN 0
    ELSE LET total == SumValues(scores)
         IN IF total = 0 THEN 0 ELSE EntropySum(scores, total)

\* learnFromSuccessAdvanced: `if (recentSuccesses.length > maxHistorySize)`
EvictNeeded_Never(list, max) == FALSE
EvictNeeded(list, max) == Len(list) > max

\* learnFromSuccessAdvanced: unshift the entry, then pop() once when needed
RecentSuccessesAfter(list, entry, max) ==
    LET grown == <<entry>> \o list
    IN IF EvictNeeded(grown, max) THEN SubSeq(grown, 1, Len(grown) - 1) ELSE grown

\* learnFromSuccessAdvanced(state, seedPhrase, walletType, balanceUSD)
LearnFromSuccessAdvanced(state, seedPhrase, t) ==
    LET words == TrimSplit(seedPhrase)
        wordCount == Len(words)
        totalSuccesses == state.totalSuccesses + 1
        patternKey == Slice(words, 0, 3)
        patternScores ==
            Put(state.patternScores, patternKey,
                Get(state.patternScores, patternKey) + ScoreUnit)
    IN [state EXCEPT
           !.totalSuccesses = totalSuccesses,
           !.successBy12Words = IF wordCount = 12 THEN @ + 1 ELSE @,
           !.successBy24Words = IF wordCount = 24 THEN @ + 1 ELSE @,
           !.bigrams = NGramsAfter(@, words, 1, 0),
           !.trigrams = NGramsAfter(@, words, 2, 0),
           !.quadgrams = NGramsAfter(@, words, 3, 0),
           !.firstWordFrequency = Increment(@, words[1]),
           !.lastWordFrequency = Increment(@, words[Len(words)]),
           !.checksumPatterns =
               IF wordCount = 12 THEN Increment(@, Slice(words, 0, 11)) ELSE @,
           !.wordLengthDistribution = WordLengthsAfter(@, words, 1),
           !.averageWordLength = AverageWordLengthAfter(@, totalSuccesses, words),
           !.patternAges = Put(@, patternKey, t),
           !.patternScores = patternScores,
           !.recentSuccesses =
               RecentSuccessesAfter(
                   @, [timestamp |-> t, wordCount |-> wordCount, words |-> words],
                   state.config.maxHistorySize),
           !.phraseEntropy = ShannonEntropy(patternScores),
           !.lastUpdated = t]

\* updateAdvancedAttempts
UpdateAdvancedAttempts(state, count, t) ==
    [state EXCEPT !.totalAttempts = @ + count, !.lastUpdated = t]

\* applyPatternDecay: Math.pow(decayRate, daysOld - minPatternAge) for a
\* whole number of days, in 1/10000
RECURSIVE DecayFactor(_, _)
DecayFactor(decayRate, days) ==
    IF days <= 0 THEN FactorUnit
    ELSE (DecayFactor(decayRate, days - 1) * decayRate) \div 100

\* applyPatternDecay: `if (age > minAgeMs)`, the clock counting days
DecayApplies(state, pattern, t) ==
    t - state.patternAges[pattern] > state.config.minPatternAge

\* applyPatternDecay: newScore of one pattern
DecayedScore(state, pattern, t) ==
    (Get(state.patternScores, pattern)
        * DecayFactor(state.config.decayRate,
                      (t - state.patternAges[pattern]) - state.config.minPatternAge))
        \div FactorUnit

\* applyPatternDecay: the pattern is removed
DecayRemoves(state, pattern, t) ==
    DecayApplies(state, pattern, t) /\ DecayedScore(state, pattern, t) < ScoreFloor

\* applyPatternDecay(state): every pattern of patternAges is visited once;
\* nothing else of the state is written
ApplyPatternDecay(state, t) ==
    LET aged == DOMAIN state.patternAges
        removed == {p \in aged : DecayRemoves(state, p, t)}
        rescored == {p \in aged \ removed : DecayApplies(state, p, t)}
    IN [state EXCEPT
           !.patternScores =
               [p \in ((DOMAIN @) \ removed) \cup rescored |->
                    IF p \in rescored THEN DecayedScore(state, p, t) ELSE @[p]],
           !.patternAges = [p \in aged \ removed |-> @[p]]]

\* mapToObject(map) of a map with string keys
MapToObject(m) == Entries(m)

\* mapToObject(map) of a map with number keys: a property name is a string,
\* and of two keys with the same name the one inserted later (the number)
\* gives the value
NumberMapToObject(m) ==
    {<<StrKey(n),
       IF NumKey(n) \in DOMAIN m THEN m[NumKey(n)] ELSE m[StrKey(n)]>> :
         n \in {k[2] : k \in DOMAIN m}}

\* serializeState of ml-advanced
SerializeState(state) ==
    [bigrams |-> NestedEntries(state.bigrams),
     trigrams |-> NestedEntries(state.trigrams),
     quadgrams |-> NestedEntries(state.quadgrams),
     firstWordFrequency |-> MapToObject(state.firstWordFrequency),
     lastWordFrequency |-> MapToObject(state.lastWordFrequency),
     patternAges |->
         {<<p, ToISOString(state.patternAges[p])>> : p \in DOMAIN state.patternAges},
     patternScores |-> MapToObject(state.patternScores),
     checksumPatterns |-> MapToObject(state.checksumPatterns),
     averageWordLength |-> state.averageWordLength,
     wordLengthDistribution |-> NumberMapToObject(state.wordLengthDistribution),
     phraseEntropy |-> state.phraseEntropy,
     positionEntropy |-> NumberMapToObject(state.positionEntropy),
     successBy12Words |-> state.successBy12Words,
     successBy24Words |-> state.successBy24Words,
     recentSuccesses |->
         [i \in 1..Len(state.recentSuccesses) |->
              [state.recentSuccesses[i] EXCEPT !.timestamp = ToISOString(@)]],
     config |-> state.config]

\* objectToMap(obj): an empty map when the key is missing; the keys of the
\* map are the property names
ObjectToMap(json, k) == IF HasKey(json, k) THEN MapOf(json[k]) ELSE EmptyMap
\* objectToMap(obj, true)
NestedObjectToMap(json, k) ==
    IF HasKey(json, k) THEN NestedMapOf(json[k]) ELSE EmptyMap

\* deserializeState(data, result) of ml-advanced
DeserializeState(json, row, t) ==
    [bigrams |-> NestedObjectToMap(json, "bigrams"),
     trigrams |-> NestedObjectToMap(json, "trigrams"),
     quadgrams |-> NestedObjectToMap(json, "quadgrams"),
     firstWordFrequency |-> ObjectToMap(json, "firstWordFrequency"),
     lastWordFrequency |-> ObjectToMap(json, "lastWordFrequency"),
     patternAges |->
         IF HasKey(json, "patternAges")
         THEN [p \in DOMAIN MapOf(json.patternAges) |->
                   NewDate(MapOf(json.patternAges)[p])]
         ELSE EmptyMap,
     patternScores |-> ObjectToMap(json, "patternScores"),
     checksumPatterns |-> ObjectToMap(json, "checksumPatterns"),
     averageWordLength |->
         IF HasKey(json, "averageWordLength") THEN json.averageWordLength ELSE 0,
     wordLengthDistribution |-> ObjectToMap(json, "wordLengthDistribution"),
     phraseEntropy |-> IF HasKey(json, "phraseEntropy") THEN json.phraseEntropy ELSE 0,
     positionEntropy |-> ObjectToMap(json, "positionEntropy"),
     successBy12Words |->
         IF HasKey(json, "successBy12Words") THEN json.successBy12Words ELSE 0,
     successBy24Words |->
         IF HasKey(json, "successBy24Words") THEN json.successBy24Words ELSE 0,
     recentSuccesses |->
         IF HasKey(json, "recentSuccesses")
         THEN [i \in 1..Len(json.recentSuccesses) |->
                   [json.recentSuccesses[i] EXCEPT !.timestamp = NewDate(@)]]
         ELSE <<>>,
     totalSuccesses |-> row.total_successes,
     totalAttempts |-> row.total_attempts,
     lastUpdated |-> IF row.last_updated # 0 THEN row.last_updated ELSE t,
     config |-> IF HasKey(json, "config") THEN json.config ELSE DefaultAdvancedConfig]

\* initializeAdvancedMLState(db): it reads the same row of ml_state; the
\* `catch` takes JSON.parse throwing and deserializeState reading a key of null
InitializeAdvancedMLState(rows, t) ==
    IF ~HasStateData(rows) THEN FreshAdvancedState(t)
    ELSE IF JsonParseThrows(rows[1].state_data) \/ rows[1].state_data = JsonNull
    THEN FreshAdvancedState(t)
    ELSE DeserializeState(rows[1].state_data, rows[1], t)

\* saveAdvancedMLState: INSERT OR REPLACE INTO ml_state (id, state_data,
\* total_successes, total_attempts, last_updated), the row saveMLState wrote;
\* last_updated is CURRENT_TIMESTAMP
SaveAdvancedMLState(rows, state, t) ==
    <<[state_data |-> SerializeState(state),
       total_successes |-> state.totalSuccesses,
       total_attempts |-> state.totalAttempts,
       last_updated |-> t]>>

\* POST /api/ml/train: the request is refused with status 400
TrainRefuses(seedPhrase) ==
    \/ seedPhrase = <<>>
    \/ Len(TrimSplit(seedPhrase)) \notin {12, 24}

InitTrain ==
    /\ BatIdle
    /\ RLIdle
    /\ BalIdle
    /\ MlIdle

\* POST /api/ml/train, one whole invocation
Train(seedPhrase, hasBalance) ==
    /\ Len(submissions) < MaxTrain
    /\ IF TrainRefuses(seedPhrase)
       THEN /\ mlOp' = "refused"
            /\ UNCHANGED <<ml, adv, mlPhrase, dbRow, submissions>>
       ELSE LET mlState == InitializeMLState(dbRow, now)
                advancedState == InitializeAdvancedMLState(dbRow, now)
                learned == IF hasBalance
                           THEN LearnFromSuccess(mlState, seedPhrase, now)
                           ELSE mlState
                learnedAdv == IF hasBalance
                              THEN LearnFromSuccessAdvanced(advancedState, seedPhrase, now)
                              ELSE advancedState
                mlFinal == UpdateAttempts(learned, 1, now)
                advFinal ==
                    ApplyPatternDecay(UpdateAdvancedAttempts(learnedAdv, 1, now), now)
            IN /\ ml' = mlFinal
               /\ adv' = advFinal
               /\ dbRow' = SaveAdvancedMLState(SaveMLState(dbRow, mlFinal), advFinal, now)
               /\ submissions' = Append(submissions, hasBalance)
               /\ mlPhrase' = TrimLowerSplit(seedPhrase)
               /\ mlOp' = "train"
    /\ UNCHANGED mlExtra
    /\ UNCHANGED nonMlVars

NextTrain == \E p \in TrainPhrases, h \in BOOLEAN : Train(p, h)

SpecTrain == InitTrain /\ [][NextTrain]_vars

SuccessfulSubmissions == Len(SelectSeq(submissions, LAMBDA h : h))

(***************************************************************************)
(* C10: after any sequence of training submissions, the basic state that   *)
(* the next invocation loads reflects all of them: totalSuccesses counts   *)
(* the submissions with hasBalance, totalAttempts counts all submissions.  *)
(***************************************************************************)
C10_LearningAccumulates ==
    LET loaded == InitializeMLState(dbRow, now)
    IN /\ loaded.totalSuccesses = SuccessfulSubmissions
       /\ loaded.totalAttempts = Len(submissions)

(***************************************************************************)
(* The persistence store: tables ml_state, ml_config and ml_metrics, each  *)
(* holding at most the one row with id = 1, and the operations that load   *)
(* and save the two learning states, the configuration and the metrics.    *)
(***************************************************************************)
MaxStoreLearns == 1   \* learning calls on each state in memory
MaxTracks == 2        \* trackAttempt calls explored

\* `{ ...base, ...over }`
Merge(base, over) ==
    [k \in (DOMAIN base) \cup (DOMAIN over) |->
         IF k \in DOMAIN over THEN over[k] ELSE base[k]]

\* loadConfig: the defaults overlaid with the stored row, the defaults when
\* there is no row
LoadConfig(rows) ==
    IF rows # <<>> THEN Merge(DEFAULT_ML_CONFIG, rows[1].config_data)
    ELSE DEFAULT_ML_CONFIG

\* saveConfig(config): INSERT OR REPLACE INTO ml_config
SaveConfig(current, config) == <<[config_data |-> Merge(current, config)]>>

\* the bodies POST /api/ml/config is called with
ConfigUpdates ==
    {[learningRate |-> 50],
     [performanceWindow |-> 1, trackPerformance |-> TRUE]}

\* loadMetrics: the stored metrics, empty metrics when there is no row
LoadMetrics(rows) ==
    IF rows # <<>>
    THEN LET data == rows[1].metrics_data
         IN [strategyPerformance |-> MapOf(data.strategyPerformance),
             recentAttempts |->
                 [i \in 1..Len(data.recentAttempts) |->
                      [data.recentAttempts[i] EXCEPT !.timestamp = NewDate(@)]],
             bestStrategy |-> data.bestStrategy,
             worstStrategy |-> data.worstStrategy,
             improvementRate |-> data.improvementRate,
             confidence |-> data.confidence]
    ELSE [strategyPerformance |-> EmptyMap,
          recentAttempts |-> <<>>,
          bestStrategy |-> "random",
          worstStrategy |-> "random",
          improvementRate |-> 0,
          confidence |-> 0]

\* saveMetrics: INSERT OR REPLACE INTO ml_metrics; JSON.stringify writes a
\* Date as its ISO text
SaveMetrics(metrics) ==
    <<[metrics_data |->
         [strategyPerformance |-> Entries(metrics.strategyPerformance),
          recentAttempts |->
              [i \in 1..Len(metrics.recentAttempts) |->
                   [metrics.recentAttempts[i] EXCEPT !.timestamp = ToISOString(@)]],
          bestStrategy |-> metrics.bestStrategy,
          worstStrategy |-> metrics.worstStrategy,
          improvementRate |-> metrics.improvementRate,
          confidence |-> metrics.confidence]]>>

TrackedStrategies == {"random", "hybrid"}

\* trackAttempt: the entry of one strategy after the attempt; successRate is
\* in hundredths
StrategyMetricsAfter(perf, strategy, success, timeMs) ==
    LET old == IF strategy \in DOMAIN perf THEN perf[strategy]
               ELSE [attempts |-> 0, successes |-> 0, successRate |-> 0,
                     avgTimeMs |-> 0]
        attempts == old.attempts + 1
        successes == IF success THEN old.successes + 1 ELSE old.successes
    IN [attempts |-> attempts,
        successes |-> successes,
        successRate |-> (successes * 100) \div attempts,
        avgTimeMs |-> (old.avgTimeMs * (attempts - 1) + timeMs) \div attempts]

\* updateBestWorstStrategies: only a strategy with 10 attempts or more is
\* ranked; the passes over the strategies pick the extreme success rates
RankedStrategies(perf) == {s \in DOMAIN perf : perf[s].attempts >= 10}

BestStrategy(perf) ==
    IF RankedStrategies(perf) = {} THEN "random"
    ELSE CHOOSE s \in RankedStrategies(perf) :
             \A o \in RankedStrategies(perf) : perf[o].successRate <= perf[s].successRate

WorstStrategy(perf) ==
    IF RankedStrategies(perf) = {} THEN "random"
    ELSE CHOOSE s \in RankedStrategies(perf) :
             \A o \in RankedStrategies(perf) : perf[o].successRate >= perf[s].successRate

\* calculateImprovementRate, in hundredths
CalculateImprovementRate(perf) ==
    IF "random" \notin DOMAIN perf \/ perf["random"].attempts = 0 THEN 0
    ELSE LET base == perf["random"].successRate
             better == {perf[s].successRate : s \in {x \in DOMAIN perf : perf[x].successRate > base}}
             bestRate == IF better = {} THEN base
                         ELSE CHOOSE r \in better : \A o \in better : o <= r
         IN IF base > 0 THEN ((bestRate - base) * 100) \div base ELSE 0

\* trackAttempt(strategy, success, timeMs) on the metrics it loaded;
\* confidence is in thousandths
TrackAttempt(metrics, config, strategy, success, timeMs, t) ==
    LET perf == Put(metrics.strategyPerformance, strategy,
                    StrategyMetricsAfter(metrics.strategyPerformance, strategy,
                                         success, timeMs))
        pushed == Append(metrics.recentAttempts,
                         [timestamp |-> t, strategy |-> strategy,
                          success |-> success, timeMs |-> timeMs])
        recent == IF Len(pushed) > config.performanceWindow THEN Tail(pushed)
                  ELSE pushed
        total == SumValues([s \in DOMAIN perf |-> perf[s].attempts])
    IN [strategyPerformance |-> perf,
        recentAttempts |-> recent,
        bestStrategy |-> BestStrategy(perf),
        worstStrategy |-> WorstStrategy(perf),
        improvementRate |-> CalculateImprovementRate(perf),
        confidence |-> Min(total, 1000)]

\* rows an earlier session, or damage to the table, left in ml_state
StoredRows ==
    {<<InitialRow>>,
     <<>>,
     <<[state_data |-> EmptyText, total_successes |-> 0, total_attempts |-> 0,
        last_updated |-> 0]>>,
     <<[state_data |-> GarbledText, total_successes |-> 5, total_attempts |-> 9,
        last_updated |-> 3]>>,
     <<[state_data |-> JsonNull, total_successes |-> 5, total_attempts |-> 9,
        last_updated |-> 3]>>}

InitStore ==
    /\ BatIdle
    /\ RLIdle
    /\ BalIdle
    /\ ml = FreshMLState(Epoch)
    /\ adv = FreshAdvancedState(Epoch)
    /\ mlOp = "none"
    /\ mlPhrase = <<>>
    /\ dbRow \in StoredRows
    /\ submissions = <<>>
    /\ configRow = <<InitialConfigRow>>
    /\ metricsRow = <<InitialMetricsRow>>
    /\ gen = NoGen
    /\ mlSteps = 0
    /\ ctl = NewController

\* initializeMLState lets an exception escape
InitializeMLStateThrows(rows) ==
    /\ HasStateData(rows)
    /\ DeserializeMLState(rows[1].state_data).threw
    /\ ~LoadCatches(DeserializeMLState(rows[1].state_data))

\* a caller loads the basic state
LoadBasic ==
    /\ IF InitializeMLStateThrows(dbRow)
       THEN mlOp' = "loadBasicThrew" /\ ml' = ml
       ELSE mlOp' = "loadBasic" /\ ml' = InitializeMLState(dbRow, now)
    /\ UNCHANGED <<adv, mlPhrase, dbRow, submissions, mlExtra>>
    /\ UNCHANGED nonMlVars

\* a caller loads the advanced state
LoadAdvanced ==
    /\ adv' = InitializeAdvancedMLState(dbRow, now)
    /\ mlOp' = "loadAdvanced"
    /\ UNCHANGED <<ml, mlPhrase, dbRow, submissions, mlExtra>>
    /\ UNCHANGED nonMlVars

\* a caller learns a phrase into the basic state it holds
StoreLearnBasic(seedPhrase) ==
    /\ ml.totalSuccesses < MaxStoreLearns
    /\ ml' = LearnFromSuccess(ml, seedPhrase, now)
    /\ mlOp' = "learnBasic"
    /\ mlPhrase' = TrimLowerSplit(seedPhrase)
    /\ UNCHANGED <<adv, dbRow, submissions, mlExtra>>
    /\ UNCHANGED nonMlVars

\* a caller learns a phrase into the advanced state it holds
StoreLearnAdvanced(seedPhrase) ==
    /\ adv.totalSuccesses < MaxStoreLearns
    /\ adv' = LearnFromSuccessAdvanced(adv, seedPhrase, now)
    /\ mlOp' = "learnAdvanced"
    /\ mlPhrase' = TrimSplit(seedPhrase)
    /\ UNCHANGED <<ml, dbRow, submissions, mlExtra>>
    /\ UNCHANGED nonMlVars

\* saveMLState(db, state)
SaveBasic ==
    /\ dbRow' = SaveMLState(dbRow, ml)
    /\ mlOp' = "saveBasic"
    /\ UNCHANGED <<ml, adv, mlPhrase, submissions, mlExtra>>
    /\ UNCHANGED nonMlVars

\* saveAdvancedMLState(db, state)
SaveAdvanced ==
    /\ dbRow' = SaveAdvancedMLState(dbRow, adv, now)
    /\ mlOp' = "saveAdvanced"
    /\ UNCHANGED <<ml, adv, mlPhrase, submissions, mlExtra>>
    /\ UNCHANGED nonMlVars

\* resetMLState(db)
ResetBasic ==
    /\ dbRow' = ResetMLState(dbRow)
    /\ mlOp' = "resetBasic"
    /\ UNCHANGED <<ml, adv, mlPhrase, submissions, mlExtra>>
    /\ UNCHANGED nonMlVars

\* POST /api/ml/config: a new controller, loadConfig, saveConfig(updates)
UpdateConfig(updates) ==
    /\ configRow' = SaveConfig(LoadConfig(configRow), updates)
    /\ mlOp' = "saveConfig"
    /\ UNCHANGED <<ml, adv, mlPhrase, dbRow, submissions, metricsRow, gen, mlSteps,
                   ctl>>
    /\ UNCHANGED nonMlVars

\* a new controller, loadConfig, trackAttempt(strategy, success, timeMs)
Track(strategy, success) ==
    /\ Len(LoadMetrics(metricsRow).recentAttempts) < MaxTracks
    /\ SumValues([s \in DOMAIN LoadMetrics(metricsRow).strategyPerformance |->
                     LoadMetrics(metricsRow).strategyPerformance[s].attempts]) < MaxTracks
    /\ IF LoadConfig(configRow).trackPerformance
       THEN metricsRow' =
                SaveMetrics(TrackAttempt(LoadMetrics(metricsRow), LoadConfig(configRow),
                                         strategy, success, 10, now))
       ELSE metricsRow' = metricsRow
    /\ mlOp' = "saveMetrics"
    /\ UNCHANGED <<ml, adv, mlPhrase, dbRow, submissions, configRow, gen, mlSteps,
                   ctl>>
    /\ UNCHANGED nonMlVars

NextStore ==
    \/ LoadBasic
    \/ LoadAdvanced
    \/ \E p \in {ScenarioPhrase} : StoreLearnBasic(p)
    \/ \E p \in {ScenarioPhrase} : StoreLearnAdvanced(p)
    \/ SaveBasic
    \/ SaveAdvanced
    \/ ResetBasic
    \/ \E u \in ConfigUpdates : UpdateConfig(u)
    \/ \E s \in TrackedStrategies, ok \in BOOLEAN : Track(s, ok)

SpecStore == InitStore /\ [][NextStore]_vars

\* what a load of each of the four persisted values returns
LoadedBasic(rows) == InitializeMLState(rows, now)
LoadedAdvanced(rows) == InitializeAdvancedMLState(rows, now)

(***************************************************************************)
(* C11: the basic state, the advanced state, the configuration and the     *)
(* metrics are persisted under four distinct keys: saving any one of them  *)
(* leaves unchanged the value a later load of each of the other three      *)
(* returns.                                                                *)
(***************************************************************************)
C11_SaveStep ==
    /\ mlOp' = "saveBasic" =>
           /\ LoadedAdvanced(dbRow') = LoadedAdvanced(dbRow)
           /\ LoadConfig(configRow') = LoadConfig(configRow)
           /\ LoadMetrics(metricsRow') = LoadMetrics(metricsRow)
    /\ mlOp' = "saveAdvanced" =>
           /\ LoadedBasic(dbRow') = LoadedBasic(dbRow)
           /\ LoadConfig(configRow') = LoadConfig(configRow)
           /\ LoadMetrics(metricsRow') = LoadMetrics(metricsRow)
    /\ mlOp' = "saveConfig" =>
           /\ LoadedBasic(dbRow') = LoadedBasic(dbRow)
           /\ LoadedAdvanced(dbRow') = LoadedAdvanced(dbRow)
           /\ LoadMetrics(metricsRow') = LoadMetrics(metricsRow)
    /\ mlOp' = "saveMetrics" =>
           /\ LoadedBasic(dbRow') = LoadedBasic(dbRow)
           /\ LoadedAdvanced(dbRow') = LoadedAdvanced(dbRow)
           /\ LoadConfig(configRow') = LoadConfig(configRow)

C11_DistinctKeys == [][C11_SaveStep]_vars

\* the stored text is not the serialization of a basic / an advanced state
BasicBlobUnreadable(rows) ==
    \/ rows = <<>>
    \/ DOMAIN rows[1].state_data # DOMAIN SerializeMLState(FreshMLState(0))
AdvancedBlobUnreadable(rows) ==
    \/ rows = <<>>
    \/ DOMAIN rows[1].state_data # DOMAIN SerializeState(FreshAdvancedState(0))

(***************************************************************************)
(* C14: when the stored learning-state text is absent or fails to parse or *)
(* deserialize, initializeMLState and initializeAdvancedMLState do not     *)
(* throw and return a fresh empty state (empty maps, zero counters), and   *)
(* the load neither deletes nor modifies the stored text.                  *)
(***************************************************************************)
C14_LoadStep ==
    /\ mlOp' # "loadBasicThrew"
    /\ (mlOp' = "loadBasic" /\ BasicBlobUnreadable(dbRow)) =>
           /\ ml'.wordFrequency = EmptyMap
           /\ ml'.positionPreferences = EmptyMap
           /\ ml'.wordPairs = EmptyMap
           /\ ml'.successPatterns = <<>>
           /\ ml'.totalSuccesses = 0
           /\ ml'.totalAttempts = 0
           /\ dbRow' = dbRow
    /\ (mlOp' = "loadAdvanced" /\ AdvancedBlobUnreadable(dbRow)) =>
           /\ adv' = FreshAdvancedState(now)
           /\ dbRow' = dbRow

C14_LoadFallsBack == [][C14_LoadStep]_vars

\* the basic state was loaded while the row held a text JSON.parse rejects,
\* and the advanced state was last saved with learned data
C14_Witness ==
    /\ mlOp = "loadBasic"
    /\ dbRow # <<>>
    /\ dbRow[1].state_data = GarbledText
    /\ dbRow[1].total_successes = 5
    /\ adv.totalSuccesses = 1
    /\ ml.totalSuccesses = 0

(***************************************************************************)
(* The basic state across sessions: it is learned into, saved, and loaded  *)
(* again later.                                                            *)
(***************************************************************************)
MaxClock == 2         \* clock ticks explored between the operations

InitRoundTrip ==
    /\ BatIdle
    /\ RLIdle
    /\ BalIdle
    /\ MlIdle

\* time passes between two operations
ClockTick ==
    /\ now < Epoch + MaxClock
    /\ now' = now + 1
    /\ UNCHANGED <<minInterval, queue, processing, lastCall, items, promise,
                   loops, started>>
    /\ UNCHANGED nonRlVars

\* saveMLState(db, state), and initializeMLState(db) by the next session
SaveAndLoad ==
    /\ dbRow' = SaveMLState(dbRow, ml)
    /\ ml' = InitializeMLState(dbRow', now)
    /\ mlOp' = "reload"
    /\ UNCHANGED <<adv, mlPhrase, submissions, mlExtra>>
    /\ UNCHANGED nonMlVars

NextRoundTrip ==
    \/ \E p \in Phrases : Learn(p)
    \/ \E n \in AttemptBatches : RecordAttempts(n)
    \/ ClockTick
    \/ SaveAndLoad

SpecRoundTrip == InitRoundTrip /\ [][NextRoundTrip]_vars

(***************************************************************************)
(* C12: for any basic state reached by learn and recordAttempts calls,     *)
(* deserializing its serialization yields a state with identical           *)
(* wordFrequency, positionPreferences (same position keys), wordPairs,     *)
(* totalSuccesses, totalAttempts and lastUpdated.                          *)
(***************************************************************************)
C12_ReloadStep ==
    mlOp' = "reload" =>
        /\ ml'.wordFrequency = ml.wordFrequency
        /\ DOMAIN ml'.positionPreferences = DOMAIN ml.positionPreferences
        /\ \A i \in KnownPositions, w \in KnownWords :
              GetNested(ml'.positionPreferences, i, w)
                  = GetNested(ml.positionPreferences, i, w)
        /\ DOMAIN ml'.wordPairs = DOMAIN ml.wordPairs
        /\ \A a, b \in KnownWords :
              GetNested(ml'.wordPairs, a, b) = GetNested(ml.wordPairs, a, b)
        /\ ml'.totalSuccesses = ml.totalSuccesses
        /\ ml'.totalAttempts = ml.totalAttempts
        /\ ml'.lastUpdated = ml.lastUpdated

C12_BasicRoundTrip == [][C12_ReloadStep]_vars

\* a state with two learned phrases, the 12-word one among them, and
\* recorded attempts was saved and loaded at a later time than its last update
C12_Witness ==
    /\ mlOp = "reload"
    /\ ml.totalSuccesses = 2
    /\ ml.totalAttempts = 2
    /\ 11 \in DOMAIN ml.positionPreferences
    /\ "abandon" \in DOMAIN ml.wordPairs
    /\ ml.lastUpdated < now
    /\ dbRow[1].state_data.totalSuccesses = 2

(***************************************************************************)
(* The advanced learning state over time: learning, pattern decay, and     *)
(* saving and loading between sessions. In this specification and the next *)
(* the clock `now` counts whole days, the unit of the decay rules.         *)
(***************************************************************************)
MaxAdvLearns == 3     \* learnFromSuccessAdvanced calls explored
MaxDays == 22         \* days the clock runs
MaxAdvSteps == 2      \* decay and save-and-load operations explored

DaySteps == {8, 22}
AdvPhrases == {ScenarioPhrase, <<"abandon", "Ability">>}

InitAdv ==
    /\ BatIdle
    /\ RLIdle
    /\ BalIdle
    /\ MlIdle

\* days pass between two operations
DaysPass(d) ==
    /\ now + d <= Epoch + MaxDays
    /\ now' = now + d
    /\ mlOp' = "wait"
    /\ UNCHANGED <<minInterval, queue, processing, lastCall, items, promise,
                   loops, started>>
    /\ UNCHANGED <<ml, adv, mlPhrase, dbRow, submissions, mlExtra>>
    /\ UNCHANGED <<balVars, batVars>>

\* learnFromSuccessAdvanced(state, seedPhrase, ...)
AdvLearn(seedPhrase) ==
    /\ adv.totalSuccesses < MaxAdvLearns
    /\ adv' = LearnFromSuccessAdvanced(adv, seedPhrase, now)
    /\ mlOp' = "learnAdvanced"
    /\ mlPhrase' = TrimSplit(seedPhrase)
    /\ UNCHANGED <<ml, dbRow, submissions, mlExtra>>
    /\ UNCHANGED nonMlVars

\* applyPatternDecay(state)
AdvDecay ==
    /\ mlSteps < MaxAdvSteps
    /\ mlSteps' = mlSteps + 1
    /\ adv' = ApplyPatternDecay(adv, now)
    /\ mlOp' = "decay"
    /\ UNCHANGED <<ml, mlPhrase, dbRow, submissions, configRow, metricsRow, gen,
                   ctl>>
    /\ UNCHANGED nonMlVars

\* saveAdvancedMLState(db, state), and initializeAdvancedMLState(db) by the
\* next session
AdvSaveAndLoad ==
    /\ mlSteps < MaxAdvSteps
    /\ mlSteps' = mlSteps + 1
    /\ dbRow' = SaveAdvancedMLState(dbRow, adv, now)
    /\ adv' = InitializeAdvancedMLState(dbRow', now)
    /\ mlOp' = "reloadAdvanced"
    /\ UNCHANGED <<ml, mlPhrase, submissions, configRow, metricsRow, gen,
                   ctl>>
    /\ UNCHANGED nonMlVars

NextAdv ==
    \/ \E d \in DaySteps : DaysPass(d)
    \/ \E p \in AdvPhrases : AdvLearn(p)
    \/ AdvDecay
    \/ AdvSaveAndLoad

SpecAdv == InitAdv /\ [][NextAdv]_vars

(***************************************************************************)
(* C13: for any advanced state reached by learnAdvanced calls, saving then *)
(* loading it yields a state with identical n-gram tables, first/last-word *)
(* and checksum maps, patternScores, patternAges, wordLengthDistribution   *)
(* (same keys and counts), recentSuccesses, totalSuccesses, totalAttempts  *)
(* and lastUpdated, so that learning a further phrase on the reloaded      *)
(* state gives the same result as learning it on the original state.       *)
(***************************************************************************)
C13_ReloadStep ==
    mlOp' = "reloadAdvanced" =>
        /\ adv'.bigrams = adv.bigrams
        /\ adv'.trigrams = adv.trigrams
        /\ adv'.quadgrams = adv.quadgrams
        /\ adv'.firstWordFrequency = adv.firstWordFrequency
        /\ adv'.lastWordFrequency = adv.lastWordFrequency
        /\ adv'.checksumPatterns = adv.checksumPatterns
        /\ adv'.patternScores = adv.patternScores
        /\ adv'.patternAges = adv.patternAges
        /\ adv'.wordLengthDistribution = adv.wordLengthDistribution
        /\ adv'.recentSuccesses = adv.recentSuccesses
        /\ adv'.totalSuccesses = adv.totalSuccesses
        /\ adv'.totalAttempts = adv.totalAttempts
        /\ adv'.lastUpdated = adv.lastUpdated
        /\ \A p \in AdvPhrases :
              LearnFromSuccessAdvanced(adv', p, now')
                  = LearnFromSuccessAdvanced(adv, p, now')

C13_AdvancedRoundTrip == [][C13_ReloadStep]_vars

(***************************************************************************)
(* C15: applyDecay is idempotent: applied twice in immediate succession    *)
(* (no elapsed time, no learn in between) it leaves patternScores and      *)
(* patternAges exactly as after the first application, also for states     *)
(* that hold patterns older than minPatternAge.                            *)
(***************************************************************************)
C15_SecondDecayStep ==
    (mlOp = "decay" /\ mlOp' = "decay") =>
        /\ adv'.patternScores = adv.patternScores
        /\ adv'.patternAges = adv.patternAges

C15_DecayIdempotent == [][C15_SecondDecayStep]_vars

(***************************************************************************)
(* C16: in every advanced state reached by learnAdvanced and applyDecay    *)
(* calls, phraseEntropy is the Shannon entropy of the normalized current   *)
(* patternScores: it is recomputed on every change of patternScores,       *)
(* including the changes and deletions made by decay.                      *)
(***************************************************************************)
C16_EntropyCurrent == adv.phraseEntropy = ShannonEntropy(adv.patternScores)

\* the list `list` cut to its first `max` entries
FirstEntries(list, max) == SubSeq(list, 1, Min(Len(list), max))

(***************************************************************************)
(* C17: after any sequence of learnAdvanced calls and reloads of the       *)
(* state, recentSuccesses holds at most config.maxHistorySize entries, the *)
(* most recently learned phrases in newest-first order: every learned      *)
(* phrase enters at the front, only entries at the old end leave, and      *)
(* nothing else changes the list.                                          *)
(***************************************************************************)
C17_HistoryStep ==
    /\ Len(adv'.recentSuccesses) <= adv'.config.maxHistorySize
    /\ IF mlOp' = "learnAdvanced"
       THEN adv'.recentSuccesses =
                FirstEntries(
                    <<[timestamp |-> now, wordCount |-> Len(mlPhrase'),
                       words |-> mlPhrase']>> \o adv.recentSuccesses,
                    adv.config.maxHistorySize)
       ELSE adv'.recentSuccesses = adv.recentSuccesses

C17_BoundedHistory ==
    /\ [][C17_HistoryStep]_vars
    /\ [](Len(adv.recentSuccesses) <= adv.config.maxHistorySize)

\* more phrases were learned than the history holds, the state went through
\* a save and load, and the history is full with the newest phrase in front
C17_Witness ==
    /\ mlOp = "learnAdvanced"
    /\ adv.totalSuccesses > adv.config.maxHistorySize
    /\ Len(adv.recentSuccesses) = adv.config.maxHistorySize
    /\ adv.recentSuccesses[1].words = mlPhrase
    /\ dbRow[1].total_successes >= 1
    /\ adv.recentSuccesses[1].timestamp > adv.recentSuccesses[2].timestamp

(***************************************************************************)
(* Generation from the basic learning state (ml-learning), with the        *)
(* controller's pattern decay. The clock counts whole days.                *)
(***************************************************************************)
MaxGenSteps == 2      \* learn, updateAttempts and decay calls explored
MaxGenDays == 31      \* days the clock runs

\* BIP39_WORDLIST: its first entries (the source lists 260)
Wordlist ==
    <<"abandon", "ability", "able", "about", "above", "absent", "absorb",
      "abstract", "absurd", "abuse", "access", "accident", "account",
      "accuse">>

Strategies ==
    {"frequency", "positional", "correlated", "hybrid", "random", "adaptive"}
WordCounts == {12, 24}

\* Math.random() results, in hundredths. One call of generate consumes the
\* values of a stream in turn and starts over at its end.
RandomUnit == 100
RandomValues == {0, 40, 99}
RandomStreams == RandomValues \X RandomValues
\* the k-th Math.random() of a call, k counting from 0
Random(stream, k) == stream[(k % Len(stream)) + 1]

\* Math.floor(Math.random() * length), as an index counting from 1
RandomIndex_Round(r, length) ==
    (r * length + RandomUnit \div 2) \div RandomUnit + 1
RandomIndex(r, length) == (r * length) \div RandomUnit + 1

\* array[index]: `undefined` outside the array
NoWord == "<undefined>"
At(array, index) == IF index \in 1..Len(array) THEN array[index] ELSE NoWord
\* array[Math.floor(Math.random() * array.length)]
Pick(array, r) == At(array, RandomIndex(r, Len(array)))

\* the keys of a Map in the order the model iterates them. A JavaScript Map
\* iterates in insertion order; the order decides which word a given random
\* value selects, not which words can be selected.
RECURSIVE KeysOf(_)
KeysOf(S) ==
    IF S = {} THEN <<>>
    ELSE LET k == CHOOSE x \in S : TRUE IN <<k>> \o KeysOf(S \ {k})

\* `for (let i = 0; i < count; i++) weightedWords.push(word)`
Replicate(word, count) == [i \in 1..count |-> word]

RECURSIVE WeightedFrom(_, _)
WeightedFrom(keys, map) ==
    IF keys = <<>> THEN <<>>
    ELSE Replicate(Head(keys), map[Head(keys)]) \o WeightedFrom(Tail(keys), map)

\* the weighted list of a count map: every key as often as its count
Weighted(map) == WeightedFrom(KeysOf(DOMAIN map), map)

\* generatePureRandom(wordCount): the words pushed
GeneratePureRandom(wordCount, stream) ==
    [i \in 1..wordCount |-> Pick(Wordlist, Random(stream, i - 1))]

\* generateFrequencyBased(state, wordCount): the words pushed
GenerateFrequencyBased(state, wordCount, stream) ==
    IF DOMAIN state.wordFrequency = {}
    THEN GeneratePureRandom(wordCount, stream)
    ELSE LET learned == Weighted(state.wordFrequency)
             weightedWords ==
                 IF Len(learned) < wordCount
                 THEN learned \o
                      SelectSeq(Wordlist,
                                LAMBDA w : w \notin DOMAIN state.wordFrequency)
                 ELSE learned
         IN [i \in 1..wordCount |-> Pick(weightedWords, Random(stream, i - 1))]

\* generatePositionalBased(state, wordCount): the words pushed
GeneratePositionalBased(state, wordCount, stream) ==
    [i \in 1..wordCount |->
        LET position == i - 1
            r == Random(stream, i - 1)
        IN IF /\ position \in DOMAIN state.positionPreferences
              /\ DOMAIN state.positionPreferences[position] # {}
           THEN Pick(Weighted(state.positionPreferences[position]), r)
           ELSE Pick(Wordlist, r)]

\* generateCorrelatedBased: the loop `for (let i = 1; i < wordCount; i++)`,
\* `words` being the words pushed so far
RECURSIVE CorrelatedWords(_, _, _, _)
CorrelatedWords(state, wordCount, stream, words) ==
    IF Len(words) >= wordCount THEN words
    ELSE LET currentWord == words[Len(words)]
             r == Random(stream, Len(words))
             next ==
                 IF /\ currentWord \in DOMAIN state.wordPairs
                    /\ DOMAIN state.wordPairs[currentWord] # {}
                 THEN Pick(Weighted(state.wordPairs[currentWord]), r)
                 ELSE Pick(Wordlist, r)
         IN CorrelatedWords(state, wordCount, stream, Append(words, next))

\* generateCorrelatedBased(state, wordCount): the words pushed
GenerateCorrelatedBased(state, wordCount, stream) ==
    IF DOMAIN state.wordPairs = {}
    THEN GeneratePureRandom(wordCount, stream)
    ELSE LET startWords == KeysOf(DOMAIN state.wordPairs)
         IN CorrelatedWords(state, wordCount, stream,
                            <<Pick(startWords, Random(stream, 0))>>)

\* generateHybridBased: the loop over the positions, `words` being the words
\* pushed so far and k the number of Math.random() calls made so far
RECURSIVE HybridWords(_, _, _, _, _)
HybridWords(state, wordCount, stream, words, k) ==
    IF Len(words) >= wordCount THEN words
    ELSE LET position == Len(words)
             positional ==
                 /\ Random(stream, k) < 40
                 /\ position \in DOMAIN state.positionPreferences
             correlated ==
                 /\ Random(stream, k + 1) < 70
                 /\ position > 0
                 /\ words[position] \in DOMAIN state.wordPairs
             word ==
                 IF positional
                 THEN LET positionMap == state.positionPreferences[position]
                          r == Random(stream, k + 1)
                      IN IF DOMAIN positionMap # {}
                         THEN Pick(Weighted(positionMap), r)
                         ELSE Pick(Wordlist, r)
                 ELSE IF correlated
                 THEN LET pairMap == state.wordPairs[words[position]]
                          r == Random(stream, k + 2)
                      IN IF DOMAIN pairMap # {}
                         THEN Pick(Weighted(pairMap), r)
                         ELSE Pick(Wordlist, r)
                 ELSE IF DOMAIN state.wordFrequency # {}
                 THEN Pick(Weighted(state.wordFrequency), Random(stream, k + 2))
                 ELSE Pick(Wordlist, Random(stream, k + 2))
         IN HybridWords(state, wordCount, stream, Append(words, word),
                        IF positional THEN k + 2 ELSE k + 3)

\* generateHybridBased(state, wordCount): the words pushed
GenerateHybridBased(state, wordCount, stream) ==
    HybridWords(state, wordCount, stream, <<>>, 0)

\* chooseAdaptiveStrategy: `if (state.totalSuccesses < 10)`
UseRandom_UpToTen(state) == state.totalSuccesses <= 10
UseRandom(state) == state.totalSuccesses < 10

\* chooseAdaptiveStrategy(state)
ChooseAdaptiveStrategy(state) ==
    IF UseRandom(state) THEN "random"
    ELSE IF state.totalSuccesses < 50 THEN "frequency"
    ELSE IF state.totalSuccesses < 100 THEN "positional"
    ELSE "hybrid"

\* generateSmartSeedPhrase: the strategy the switch runs on
ActualStrategy(state, strategy) ==
    IF strategy = "adaptive" THEN ChooseAdaptiveStrategy(state) ELSE strategy

\* words.join(' '): the tokens of the returned text, that is the pieces
\* between its single spaces; `undefined` joins as the empty string
Join(words) ==
    [i \in 1..Len(words) |-> IF words[i] = NoWord THEN "" ELSE words[i]]

\* generateSmartSeedPhrase(state, wordCount, strategy)
GenerateSmartSeedPhrase(state, wordCount, strategy, stream) ==
    LET actualStrategy == ActualStrategy(state, strategy)
    IN Join(CASE actualStrategy = "frequency" ->
                     GenerateFrequencyBased(state, wordCount, stream)
              [] actualStrategy = "positional" ->
                     GeneratePositionalBased(state, wordCount, stream)
              [] actualStrategy = "correlated" ->
                     GenerateCorrelatedBased(state, wordCount, stream)
              [] actualStrategy = "hybrid" ->
                     GenerateHybridBased(state, wordCount, stream)
              [] OTHER -> GeneratePureRandom(wordCount, stream))

\* getMLStats(state); successRate in hundredths of a percent, efficiency in
\* 1/10000
GetMLStats(state) ==
    [totalSuccesses |-> state.totalSuccesses,
     totalAttempts |-> state.totalAttempts,
     successRate |->
         IF state.totalAttempts > 0
         THEN (state.totalSuccesses * 10000) \div state.totalAttempts
         ELSE 0,
     learnedWords |-> Cardinality(DOMAIN state.wordFrequency),
     learnedPositions |-> Cardinality(DOMAIN state.positionPreferences),
     learnedPairs |-> Cardinality(DOMAIN state.wordPairs),
     recommendedStrategy |-> ChooseAdaptiveStrategy(state),
     efficiency |->
         IF state.totalSuccesses > 0
         THEN (state.totalSuccesses * 10000)
                  \div (IF state.totalAttempts > 1 THEN state.totalAttempts ELSE 1)
         ELSE 0]

\* MLController.applyPatternDecay(state) under the configuration `config`,
\* the clock counting days: every count becomes Math.floor(count *
\* decayMultiplier); no entry is removed and lastUpdated is not written
ControllerApplyPatternDecay_WordsOnly(state, config, t) ==
    IF config.decayFactor >= 100 THEN state
    ELSE LET daysSinceUpdate == t - state.lastUpdated
         IN IF daysSinceUpdate < config.maxPatternAge THEN state
            ELSE LET decayMultiplier ==
                         DecayFactor(config.decayFactor,
                                     daysSinceUpdate - config.maxPatternAge)
                     Floor(count) == (count * decayMultiplier) \div FactorUnit
                     Decayed(map) == [w \in DOMAIN map |-> Floor(map[w])]
                 IN [state EXCEPT
                        !.wordFrequency = Decayed(@)]
ControllerApplyPatternDecay(state, config, t) ==
    IF config.decayFactor >= 100 THEN state
    ELSE LET daysSinceUpdate == t - state.lastUpdated
         IN IF daysSinceUpdate < config.maxPatternAge THEN state
            ELSE LET decayMultiplier ==
                         DecayFactor(config.decayFactor,
                                     daysSinceUpdate - config.maxPatternAge)
                     Floor(count) == (count * decayMultiplier) \div FactorUnit
                     Decayed(map) == [w \in DOMAIN map |-> Floor(map[w])]
                 IN [state EXCEPT
                        !.wordFrequency = Decayed(@),
                        !.positionPreferences =
                            [p \in DOMAIN @ |-> Decayed(@[p])],
                        !.wordPairs = [w \in DOMAIN @ |-> Decayed(@[w])]]

\* the state after `times` calls of learnFromSuccess with the same phrase on
\* a fresh state: every count of one call, `times` times
LearnedTimes(seedPhrase, times, t) ==
    LET once == LearnFromSuccess(FreshMLState(t), seedPhrase, t)
        Times(map) == [w \in DOMAIN map |-> times * map[w]]
    IN IF times = 0 THEN FreshMLState(t)
       ELSE [once EXCEPT
                !.wordFrequency = Times(@),
                !.positionPreferences = [p \in DOMAIN @ |-> Times(@[p])],
                !.wordPairs = [w \in DOMAIN @ |-> Times(@[w])],
                !.totalSuccesses = times]

\* the successes learned before the explored calls, chosen next to the
\* values at which chooseAdaptiveStrategy changes its answer
PriorSuccesses == {0, 9, 49, 99}
\* the phrases learned: 12 tokens of the wordlist each
GenPhrases == {ScenarioPhrase, [i \in 1..12 |-> "account"]}
GenDaySteps == {31}

InitGen ==
    /\ BatIdle
    /\ RLIdle
    /\ BalIdle
    /\ adv = FreshAdvancedState(Epoch)
    /\ mlOp = "none"
    /\ mlPhrase = <<>>
    /\ dbRow = <<InitialRow>>
    /\ submissions = <<>>
    /\ configRow = <<InitialConfigRow>>
    /\ metricsRow = <<InitialMetricsRow>>
    /\ gen = NoGen
    /\ mlSteps = 0
    /\ ctl = NewController
    /\ ml \in {LearnedTimes(ScenarioPhrase, k, Epoch) : k \in PriorSuccesses}

\* days pass between two calls. `gen` holds what the call just made
\* returned: every other step clears it.
GenDaysPass(d) ==
    /\ now + d <= Epoch + MaxGenDays
    /\ now' = now + d
    /\ mlOp' = "wait"
    /\ gen' = NoGen
    /\ UNCHANGED <<minInterval, queue, processing, lastCall, items, promise,
                   loops, started>>
    /\ UNCHANGED <<ml, adv, mlPhrase, dbRow, submissions, configRow,
                   metricsRow, mlSteps,
                   ctl>>
    /\ UNCHANGED <<balVars, batVars>>

\* learnFromSuccess(state, seedPhrase, ...)
GenLearn(seedPhrase) ==
    /\ mlSteps < MaxGenSteps
    /\ mlSteps' = mlSteps + 1
    /\ ml' = LearnFromSuccess(ml, seedPhrase, now)
    /\ mlOp' = "learn"
    /\ mlPhrase' = TrimLowerSplit(seedPhrase)
    /\ gen' = NoGen
    /\ UNCHANGED <<adv, dbRow, submissions, configRow, metricsRow,
                   ctl>>
    /\ UNCHANGED nonMlVars

\* updateAttempts(state, attempts)
GenAttempts(attempts) ==
    /\ mlSteps < MaxGenSteps
    /\ mlSteps' = mlSteps + 1
    /\ ml' = UpdateAttempts(ml, attempts, now)
    /\ mlOp' = "attempts"
    /\ gen' = NoGen
    /\ UNCHANGED <<adv, mlPhrase, dbRow, submissions, configRow, metricsRow,
                   ctl>>
    /\ UNCHANGED nonMlVars

\* mlController.applyPatternDecay(state), the controller having loaded its
\* configuration from ml_config
GenDecay ==
    /\ mlSteps < MaxGenSteps
    /\ mlSteps' = mlSteps + 1
    /\ ml' = ControllerApplyPatternDecay(ml, LoadConfig(configRow), now)
    /\ mlOp' = "decay"
    /\ gen' = NoGen
    /\ UNCHANGED <<adv, mlPhrase, dbRow, submissions, configRow, metricsRow,
                   ctl>>
    /\ UNCHANGED nonMlVars

\* generateSmartSeedPhrase(state, wordCount, strategy). The call reads the
\* learning state and writes nothing, so a call made after another call
\* returns what it returns when made first: the model makes it first.
Generate(strategy, wordCount, stream) ==
    /\ gen = NoGen
    /\ gen' = [op |-> "generate",
               strategy |-> strategy,
               actual |-> ActualStrategy(ml, strategy),
               wordCount |-> wordCount,
               random |-> stream,
               words |-> GenerateSmartSeedPhrase(ml, wordCount, strategy, stream),
               stats |-> NoStats]
    /\ mlOp' = "generate"
    /\ UNCHANGED <<ml, adv, mlPhrase, dbRow, submissions, configRow,
                   metricsRow, mlSteps,
                   ctl>>
    /\ UNCHANGED nonMlVars

\* getMLStats(state)
Stats ==
    /\ gen = NoGen
    /\ gen' = [NoGen EXCEPT !.op = "stats", !.stats = GetMLStats(ml)]
    /\ mlOp' = "stats"
    /\ UNCHANGED <<ml, adv, mlPhrase, dbRow, submissions, configRow,
                   metricsRow, mlSteps,
                   ctl>>
    /\ UNCHANGED nonMlVars

NextGen ==
    \/ \E d \in GenDaySteps : GenDaysPass(d)
    \/ \E p \in GenPhrases : GenLearn(p)
    \/ \E n \in AttemptBatches : GenAttempts(n)
    \/ GenDecay
    \/ \E s \in Strategies, n \in WordCounts, r \in RandomStreams :
           Generate(s, n, r)
    \/ Stats

SpecGen == InitGen /\ [][NextGen]_vars

\* the returned text is a phrase of n wordlist tokens
IsPhrase(tokens, n) ==
    /\ Len(tokens) = n
    /\ \A i \in 1..Len(tokens) : \E j \in 1..Len(Wordlist) : tokens[i] = Wordlist[j]

(***************************************************************************)
(* C18: for every strategy and every basic state reached by learn,         *)
(* recordAttempts and pattern-decay calls, generate(strategy, n) with n in *)
(* {12, 24} returns exactly n tokens, each a member of the wordlist, never *)
(* an empty or undefined token.                                            *)
(***************************************************************************)
C18_GenerateReturnsPhrase ==
    mlOp = "generate" => IsPhrase(gen.words, gen.wordCount)

(***************************************************************************)
(* C19: generate with strategy 'random' returns, for every learning state  *)
(* and n in {12, 24}, exactly n tokens, each a member of the wordlist.     *)
(***************************************************************************)
C19_RandomReturnsPhrase ==
    (mlOp = "generate" /\ gen.strategy = "random") =>
        /\ gen.actual = "random"
        /\ Len(gen.words) = gen.wordCount
        /\ gen.wordCount \in WordCounts
        /\ \A i \in 1..Len(gen.words) :
               \E j \in 1..Len(Wordlist) : gen.words[i] = Wordlist[j]

\* a random phrase of 24 words drawn at the last entry of the wordlist, from
\* a state whose learned counts have all decayed to zero
C19_Witness ==
    /\ mlOp = "generate"
    /\ gen.strategy = "random"
    /\ gen.wordCount = 24
    /\ gen.words[1] = Wordlist[Len(Wordlist)]
    /\ ml.totalSuccesses > 0
    /\ \A w \in DOMAIN ml.wordFrequency : ml.wordFrequency[w] = 0

(***************************************************************************)
(* C20: with the 'adaptive' strategy, generation resolves before any token *)
(* is drawn to one concrete strategy given by totalSuccesses: random below *)
(* 10, frequency for 10..49, positional for 50..99, hybrid from 100 on,    *)
(* never correlated and never adaptive itself; stats() reports the same    *)
(* choice as the recommended strategy.                                     *)
(***************************************************************************)
C20_Resolved ==
    IF ml.totalSuccesses < 10 THEN "random"
    ELSE IF ml.totalSuccesses <= 49 THEN "frequency"
    ELSE IF ml.totalSuccesses <= 99 THEN "positional"
    ELSE "hybrid"

C20_AdaptiveResolution ==
    /\ (mlOp = "generate" /\ gen.strategy = "adaptive") =>
           /\ gen.actual = C20_Resolved
           /\ gen.actual \notin {"correlated", "adaptive"}
           /\ gen.words =
                  GenerateSmartSeedPhrase(ml, gen.wordCount, C20_Resolved,
                                          gen.random)
    /\ mlOp = "stats" => gen.stats.recommendedStrategy = C20_Resolved

\* an adaptive generation at exactly 10 successes, which runs the frequency
\* strategy
C20_Witness ==
    /\ mlOp = "generate"
    /\ gen.strategy = "adaptive"
    /\ ml.totalSuccesses = 10
    /\ gen.actual = "frequency"
    /\ Len(gen.words) = 12

(***************************************************************************)
(* Generation from the advanced learning state (ml-advanced).              *)
(***************************************************************************)
MaxNGramLearns == 2   \* learnFromSuccessAdvanced calls explored
MaxNGramReloads == 1  \* save-and-load operations explored

NGramStrategies == {"bigram", "trigram", "quadgram", "adaptive"}

\* `null`, and the values JavaScript takes for false in `a || b` and `!a`
NullWord == "<null>"
Falsy(word) == word \in {NullWord, NoWord, ""}

\* selectWeightedWord: the loop `random -= weight; if (random <= 0) return
\* word` over the entries `keys`; `random` is in 1/RandomUnit
RECURSIVE SelectFrom(_, _, _, _)
SelectFrom(keys, distribution, random, first) ==
    IF keys = <<>> THEN first
    ELSE LET left == random - distribution[Head(keys)] * RandomUnit
         IN IF left <= 0 THEN Head(keys)
            ELSE SelectFrom(Tail(keys), distribution, left, first)

\* selectWeightedWord(distribution), Math.random() returning r
SelectWeightedWord(distribution, r) ==
    IF DOMAIN distribution = {} THEN NullWord
    ELSE LET keys == KeysOf(DOMAIN distribution)
         IN SelectFrom(keys, distribution, r * SumValues(distribution), keys[1])

\* a word and the number of Math.random() calls made so far: the result of
\* selectWeightedWord, which calls Math.random() only for a map with entries
Selected(distribution, stream, k) ==
    IF DOMAIN distribution = {} THEN [word |-> NullWord, k |-> k]
    ELSE [word |-> SelectWeightedWord(distribution, Random(stream, k)),
          k |-> k + 1]

\* `word || BIP39_WORDLIST[Math.floor(Math.random() * BIP39_WORDLIST.length)]`
OrRandomWord(sel, stream) ==
    IF Falsy(sel.word)
    THEN [word |-> Pick(Wordlist, Random(stream, sel.k)), k |-> sel.k + 1]
    ELSE sel

\* words.slice(-n).join(' '): the key of the last n words
LastWords(words, n) == Slice(words, Len(words) - n, Len(words))

\* generateWithNGrams: one pass of the body of the while loop
NextNGramWord(state, words, strategy, stream, k) ==
    LET none == [word |-> NullWord, k |-> k]
        quad ==
            IF /\ Len(words) >= 3
               /\ strategy # "bigram"
               /\ strategy # "trigram"
               /\ LastWords(words, 3) \in DOMAIN state.quadgrams
            THEN Selected(state.quadgrams[LastWords(words, 3)], stream, k)
            ELSE none
        tri ==
            IF /\ Falsy(quad.word)
               /\ Len(words) >= 2
               /\ strategy # "bigram"
               /\ LastWords(words, 2) \in DOMAIN state.trigrams
            THEN Selected(state.trigrams[LastWords(words, 2)], stream, quad.k)
            ELSE quad
        bi ==
            IF /\ Falsy(tri.word)
               /\ Len(words) >= 1
               /\ words[Len(words)] \in DOMAIN state.bigrams
            THEN Selected(state.bigrams[words[Len(words)]], stream, tri.k)
            ELSE tri
    IN OrRandomWord(bi, stream)

\* generateWithNGrams: `while (words.length < wordCount - 1)`
NGramLoopContinues_ToWordCount(words, wordCount) == Len(words) < wordCount
NGramLoopContinues(words, wordCount) == Len(words) < wordCount - 1

\* generateWithNGrams: the words pushed by the while loop and the last word
RECURSIVE NGramWords(_, _, _, _, _, _)
NGramWords(state, wordCount, strategy, stream, words, k) ==
    IF NGramLoopContinues(words, wordCount)
    THEN LET next == NextNGramWord(state, words, strategy, stream, k)
         IN NGramWords(state, wordCount, strategy, stream,
                       Append(words, next.word), next.k)
    ELSE LET last ==
                 OrRandomWord(Selected(state.lastWordFrequency, stream, k), stream)
             checksumWord == last.word
             lastWord == last.word
         IN IF wordCount = 12 /\ Len(words) = 11
            THEN IF words \in DOMAIN state.checksumPatterns
                 THEN Append(words, checksumWord)
                 ELSE Append(words, lastWord)
            ELSE Append(words, lastWord)

\* generateWithNGrams(state, wordCount, strategy): the tokens of the text
GenerateWithNGrams(state, wordCount, strategy, stream) ==
    LET firstWord ==
            OrRandomWord(Selected(state.firstWordFrequency, stream, 0), stream)
    IN Join(NGramWords(state, wordCount, strategy, stream,
                       <<firstWord.word>>, firstWord.k))

\* the phrases learned: the scenario phrase, a two-word phrase and the empty
\* phrase, which splits into one empty word
NGramPhrases == {ScenarioPhrase, <<"abandon", "Ability">>, <<>>}

InitNGram ==
    /\ BatIdle
    /\ RLIdle
    /\ BalIdle
    /\ MlIdle

\* learnFromSuccessAdvanced(state, seedPhrase, ...)
NGramLearn(seedPhrase) ==
    /\ adv.totalSuccesses < MaxNGramLearns
    /\ adv' = LearnFromSuccessAdvanced(adv, seedPhrase, now)
    /\ mlOp' = "learnAdvanced"
    /\ mlPhrase' = TrimSplit(seedPhrase)
    /\ gen' = NoGen
    /\ UNCHANGED <<ml, dbRow, submissions, configRow, metricsRow, mlSteps,
                   ctl>>
    /\ UNCHANGED nonMlVars

\* saveAdvancedMLState(db, state) and initializeAdvancedMLState(db) of the
\* next invocation
NGramSaveAndLoad ==
    /\ mlSteps < MaxNGramReloads
    /\ mlSteps' = mlSteps + 1
    /\ dbRow' = SaveAdvancedMLState(dbRow, adv, now)
    /\ adv' = InitializeAdvancedMLState(dbRow', now)
    /\ mlOp' = "reloadAdvanced"
    /\ gen' = NoGen
    /\ UNCHANGED <<ml, mlPhrase, submissions, configRow, metricsRow,
                   ctl>>
    /\ UNCHANGED nonMlVars

\* generateWithNGrams(state, wordCount, strategy); like generate it writes
\* nothing, so the model makes the call first
GenerateNGrams(strategy, wordCount, stream) ==
    /\ gen = NoGen
    /\ gen' = [op |-> "generateNGrams",
               strategy |-> strategy,
               actual |-> strategy,
               wordCount |-> wordCount,
               random |-> stream,
               words |-> GenerateWithNGrams(adv, wordCount, strategy, stream),
               stats |-> NoStats]
    /\ mlOp' = "generateNGrams"
    /\ UNCHANGED <<ml, adv, mlPhrase, dbRow, submissions, configRow,
                   metricsRow, mlSteps,
                   ctl>>
    /\ UNCHANGED nonMlVars

NextNGram ==
    \/ \E p \in NGramPhrases : NGramLearn(p)
    \/ NGramSaveAndLoad
    \/ \E s \in NGramStrategies, n \in WordCounts, r \in RandomStreams :
           GenerateNGrams(s, n, r)

SpecNGram == InitNGram /\ [][NextNGram]_vars

\* the advanced state holds no learned n-gram or first/last-word data
NoLearnedData(state) ==
    /\ DOMAIN state.bigrams = {}
    /\ DOMAIN state.trigrams = {}
    /\ DOMAIN state.quadgrams = {}
    /\ DOMAIN state.firstWordFrequency = {}
    /\ DOMAIN state.lastWordFrequency = {}

(***************************************************************************)
(* C21: generateWithNGrams(state, n, strategy) returns exactly n tokens    *)
(* for n in {12, 24} and every advanced state; for a state without learned *)
(* data every token is a draw from the wordlist, one Math.random() each.   *)
(***************************************************************************)
C21_NGramReturnsTokens ==
    mlOp = "generateNGrams" =>
        /\ gen.wordCount \in WordCounts
        /\ Len(gen.words) = gen.wordCount
        /\ \A i \in 1..Len(gen.words) : gen.words[i] # ""
        /\ NoLearnedData(adv) =>
               \A i \in 1..Len(gen.words) :
                   gen.words[i] = Wordlist[RandomIndex(Random(gen.random, i - 1),
                                                       Len(Wordlist))]

\* a 12-word generation that walks the learned quadgrams of the scenario
\* phrase and ends on its learned last word
C21_Witness ==
    /\ mlOp = "generateNGrams"
    /\ gen.strategy = "adaptive"
    /\ gen.wordCount = 12
    /\ adv.totalSuccesses = MaxNGramLearns
    /\ gen.words = ScenarioPhrase

(***************************************************************************)
(* The MLController object (ml-controller): its config and metrics fields  *)
(* and the tables ml_config, ml_metrics and ml_state behind them. Rates    *)
(* and weights are in hundredths.                                          *)
(***************************************************************************)
MaxCtlSteps == 3      \* calls that write, per behaviour

\* loadConfig(): the defaults overlaid with the stored row; without a row
\* `this.config` stays as it is
ControllerLoadConfig(c, rows) ==
    IF rows # <<>>
    THEN [c EXCEPT !.config = Merge(DEFAULT_ML_CONFIG, rows[1].config_data)]
    ELSE c

\* setLearningRate: `if (rate < 0 || rate > 1)`
RateRejected_BelowZero(rate) == rate < 0
RateRejected(rate) == rate < 0 \/ rate > 100

\* setHybridWeights: `Math.abs(sum - 1.0) > 0.01`. The weights are doubles:
\* when their exact sum is 0.99 or 1.01 the computed difference lies on
\* either side of 0.01 (0.29 + 0.4 + 0.3 gives 0.010000000000000009, and
\* 0.2 + 0.4 + 0.39 gives 0.009999999999999898); `rounding` says on which.
Roundings == {"down", "up"}
Abs(n) == IF n < 0 THEN 0 - n ELSE n
SumRejected(sum, rounding) ==
    \/ Abs(sum - 100) > 1
    \/ Abs(sum - 100) = 1 /\ rounding = "up"

\* setHybridWeights: `{ ...this.config.hybridWeights, ...weights }`
NewWeights(c, weights) == Merge(c.config.hybridWeights, weights)
WeightSum(w) == w.frequency + w.positional + w.correlation

\* getMetrics(): `if (!this.metrics) this.metrics = await this.loadMetrics()`
ControllerGetMetrics(c, rows) ==
    IF c.metrics = <<>> THEN LoadMetrics(rows) ELSE c.metrics[1]

\* resetAll: `this.metrics = null`
ResetMetrics_Kept(c) == c.metrics
ResetMetrics(c) == <<>>

\* the metrics after two tracked attempts, as an earlier session saved them
TwoAttempts ==
    TrackAttempt(
        TrackAttempt(LoadMetrics(<<>>), DEFAULT_ML_CONFIG, "random", FALSE, 10, Epoch),
        DEFAULT_ML_CONFIG, "hybrid", TRUE, 10, Epoch)

\* the arguments of the calls
Rates == {0 - 1, 0, 50, 100, 101}
WeightUpdates ==
    {[frequency |-> 31],
     [frequency |-> 50, positional |-> 20],
     [correlation |-> 50]}
WindowUpdates == {[performanceWindow |-> 1]}
ImportData ==
    {[state |-> LearnFromSuccess(FreshMLState(Epoch), <<"abandon", "Ability">>, Epoch),
      config |-> [DEFAULT_ML_CONFIG EXCEPT !.learningRate = 50],
      metrics |-> <<>>],
     [state |-> FreshMLState(Epoch),
      config |-> [DEFAULT_ML_CONFIG EXCEPT !.decayFactor = 90],
      metrics |->
          <<TrackAttempt(LoadMetrics(<<>>), DEFAULT_ML_CONFIG, "random", TRUE,
                         10, Epoch)>>]}

InitCtl ==
    /\ BatIdle
    /\ RLIdle
    /\ BalIdle
    /\ ml = FreshMLState(Epoch)
    /\ adv = FreshAdvancedState(Epoch)
    /\ mlOp = "none"
    /\ mlPhrase = <<>>
    /\ dbRow = <<InitialRow>>
    /\ submissions = <<>>
    /\ configRow = <<InitialConfigRow>>
    /\ metricsRow \in {<<InitialMetricsRow>>, SaveMetrics(TwoAttempts)}
    /\ gen = NoGen
    /\ mlSteps = 0
    /\ ctl = NewController

\* what a step of the controller leaves alone
CtlFrame ==
    /\ UNCHANGED <<ml, adv, mlPhrase, submissions, gen>>
    /\ UNCHANGED nonMlVars

CtlCounted ==
    /\ mlSteps < MaxCtlSteps
    /\ mlSteps' = mlSteps + 1

\* a request handler creates its controller: new MLController(db). What an
\* earlier exportState returned stays with the caller.
CtlNew ==
    /\ ctl' = [NewController EXCEPT !.exported = ctl.exported]
    /\ mlOp' = "newController"
    /\ UNCHANGED <<dbRow, configRow, metricsRow, mlSteps>>
    /\ CtlFrame

\* controller.loadConfig()
CtlLoadConfig ==
    /\ ctl' = [ControllerLoadConfig(ctl, configRow) EXCEPT
                  !.threw = FALSE, !.input = <<>>]
    /\ mlOp' = "loadConfig"
    /\ UNCHANGED <<dbRow, configRow, metricsRow, mlSteps>>
    /\ CtlFrame

\* controller.saveConfig(config)
CtlSaveConfig(config) ==
    /\ CtlCounted
    /\ ctl' = [ctl EXCEPT !.config = Merge(@, config), !.threw = FALSE,
                          !.input = config]
    /\ configRow' = SaveConfig(ctl.config, config)
    /\ mlOp' = "saveConfig"
    /\ UNCHANGED <<dbRow, metricsRow>>
    /\ CtlFrame

\* controller.setLearningRate(rate)
SetLearningRate(rate) ==
    /\ CtlCounted
    /\ IF RateRejected(rate)
       THEN /\ ctl' = [ctl EXCEPT !.threw = TRUE, !.input = rate]
            /\ configRow' = configRow
       ELSE /\ ctl' = [ctl EXCEPT !.config = Merge(@, [learningRate |-> rate]),
                                  !.threw = FALSE, !.input = rate]
            /\ configRow' = SaveConfig(ctl.config, [learningRate |-> rate])
    /\ mlOp' = "setLearningRate"
    /\ UNCHANGED <<dbRow, metricsRow>>
    /\ CtlFrame

\* controller.setHybridWeights(weights)
SetHybridWeights(weights, rounding) ==
    /\ CtlCounted
    /\ LET newWeights == NewWeights(ctl, weights)
       IN IF SumRejected(WeightSum(newWeights), rounding)
          THEN /\ ctl' = [ctl EXCEPT !.threw = TRUE, !.input = weights]
               /\ configRow' = configRow
          ELSE /\ ctl' = [ctl EXCEPT
                             !.config = Merge(@, [hybridWeights |-> newWeights]),
                             !.threw = FALSE, !.input = weights]
               /\ configRow' = SaveConfig(ctl.config, [hybridWeights |-> newWeights])
    /\ mlOp' = "setHybridWeights"
    /\ UNCHANGED <<dbRow, metricsRow>>
    /\ CtlFrame

\* controller.trackAttempt(strategy, success, timeMs)
CtlTrackAttempt(strategy, success) ==
    /\ CtlCounted
    /\ IF ~ctl.config.trackPerformance
       THEN /\ ctl' = [ctl EXCEPT !.threw = FALSE, !.input = <<>>]
            /\ metricsRow' = metricsRow
       ELSE LET tracked ==
                    TrackAttempt(ControllerGetMetrics(ctl, metricsRow),
                                 ctl.config, strategy, success, 10, now)
            IN /\ ctl' = [ctl EXCEPT !.metrics = <<tracked>>, !.threw = FALSE,
                                     !.input = <<>>]
               /\ metricsRow' = SaveMetrics(tracked)
    /\ mlOp' = "trackAttempt"
    /\ UNCHANGED <<dbRow, configRow>>
    /\ CtlFrame

\* controller.getMetrics()
CtlGetMetrics ==
    /\ ctl' = [ctl EXCEPT !.metrics = <<ControllerGetMetrics(ctl, metricsRow)>>,
                          !.threw = FALSE, !.input = <<>>]
    /\ mlOp' = "getMetrics"
    /\ UNCHANGED <<dbRow, configRow, metricsRow, mlSteps>>
    /\ CtlFrame

\* controller.exportState()
ExportState ==
    /\ CtlCounted
    /\ LET metrics == ControllerGetMetrics(ctl, metricsRow)
       IN ctl' = [ctl EXCEPT
                     !.metrics = <<metrics>>,
                     !.threw = FALSE,
                     !.input = <<>>,
                     !.exported =
                         <<[state |-> InitializeMLState(dbRow, now),
                            config |-> ctl.config,
                            metrics |-> <<metrics>>]>>]
    /\ mlOp' = "exportState"
    /\ UNCHANGED <<dbRow, configRow, metricsRow>>
    /\ CtlFrame

\* controller.importState(data)
ImportState(data) ==
    /\ CtlCounted
    /\ dbRow' = SaveMLState(dbRow, data.state)
    /\ configRow' = SaveConfig(ctl.config, data.config)
    /\ IF data.metrics # <<>>
       THEN /\ ctl' = [ctl EXCEPT !.config = Merge(@, data.config),
                                  !.metrics = data.metrics,
                                  !.threw = FALSE, !.input = data]
            /\ metricsRow' = SaveMetrics(data.metrics[1])
       ELSE /\ ctl' = [ctl EXCEPT !.config = Merge(@, data.config),
                                  !.threw = FALSE, !.input = data]
            /\ metricsRow' = metricsRow
    /\ mlOp' = "importState"
    /\ CtlFrame

\* controller.importState(data) with what exportState returned earlier
ImportExported ==
    /\ ctl.exported # <<>>
    /\ ImportState(ctl.exported[1])

\* controller.resetAll()
ResetAll ==
    /\ CtlCounted
    /\ dbRow' = ResetMLState(dbRow)
    /\ configRow' = <<>>
    /\ metricsRow' = <<>>
    /\ ctl' = [ctl EXCEPT !.config = DEFAULT_ML_CONFIG,
                          !.metrics = ResetMetrics(ctl),
                          !.threw = FALSE, !.input = <<>>]
    /\ mlOp' = "resetAll"
    /\ CtlFrame

NextCtl ==
    \/ CtlNew
    \/ CtlLoadConfig
    \/ \E u \in WindowUpdates : CtlSaveConfig(u)
    \/ \E r \in Rates : SetLearningRate(r)
    \/ \E w \in WeightUpdates, rounding \in Roundings : SetHybridWeights(w, rounding)
    \/ \E s \in TrackedStrategies : CtlTrackAttempt(s, s = "hybrid")
    \/ CtlGetMetrics
    \/ ExportState
    \/ \E d \in ImportData : ImportState(d)
    \/ ImportExported
    \/ ResetAll

SpecCtl == InitCtl /\ [][NextCtl]_vars

(***************************************************************************)
(* C22: setLearningRate(r) succeeds and stores learningRate = r for every  *)
(* r in [0, 1]; for r < 0 or r > 1 it fails with an error and leaves the   *)
(* config in memory and the persisted config unchanged.                    *)
(***************************************************************************)
C22_RateStep ==
    mlOp' = "setLearningRate" =>
        IF 0 <= ctl'.input /\ ctl'.input <= 100
        THEN /\ ~ctl'.threw
             /\ ctl'.config = [ctl.config EXCEPT !.learningRate = ctl'.input]
             /\ configRow' # <<>>
             /\ configRow'[1].config_data = ctl'.config
        ELSE /\ ctl'.threw
             /\ ctl'.config = ctl.config
             /\ configRow' = configRow

C22_LearningRateValidated == [][C22_RateStep]_vars

\* a rate above 1 was refused after a valid rate had been stored
C22_Witness ==
    /\ mlOp = "setLearningRate"
    /\ ctl.threw
    /\ ctl.input = 101
    /\ ctl.config.learningRate = 50
    /\ configRow # <<>>
    /\ configRow[1].config_data.learningRate = 50

(***************************************************************************)
(* C23: setHybridWeights(w) merges w over the current three weights; when  *)
(* the merged weights sum to 1.0 within 0.01 it succeeds and stores        *)
(* exactly the merged weights, otherwise it fails and the weights in       *)
(* memory and the persisted weights are unchanged.                         *)
(***************************************************************************)
C23_WeightsStep ==
    mlOp' = "setHybridWeights" =>
        LET merged == Merge(ctl.config.hybridWeights, ctl'.input)
            sum == merged.frequency + merged.positional + merged.correlation
        IN IF 99 <= sum /\ sum <= 101
           THEN /\ ~ctl'.threw
                /\ ctl'.config.hybridWeights = merged
                /\ configRow' # <<>>
                /\ configRow'[1].config_data.hybridWeights = merged
           ELSE /\ ctl'.threw
                /\ ctl'.config = ctl.config
                /\ configRow' = configRow

C23_HybridWeightsValidated == [][C23_WeightsStep]_vars

(***************************************************************************)
(* C24: importState(data) fully replaces the prior state: afterwards the   *)
(* persisted basic learning state, the config and the metrics are exactly  *)
(* those of data, nothing being kept from before; when data carries no     *)
(* metrics no earlier metrics survive. Importing what exportState returned *)
(* restores the exported snapshot.                                         *)
(***************************************************************************)
C24_ImportStep ==
    mlOp' = "importState" =>
        LET data == ctl'.input
        IN /\ InitializeMLState(dbRow', now') = data.state
           /\ ctl'.config = data.config
           /\ LoadConfig(configRow') = data.config
           /\ ControllerGetMetrics(ctl', metricsRow') =
                  (IF data.metrics # <<>> THEN data.metrics[1]
                   ELSE LoadMetrics(<<>>))
           /\ LoadMetrics(metricsRow') =
                  (IF data.metrics # <<>> THEN data.metrics[1]
                   ELSE LoadMetrics(<<>>))

C24_ImportReplaces == [][C24_ImportStep]_vars

(***************************************************************************)
(* C25: after resetAll(), whatever preceded it, the persisted learning     *)
(* state, config and metrics are cleared, getConfig() is the default       *)
(* configuration and getMetrics() returns empty metrics.                   *)
(***************************************************************************)
C25_ResetClears ==
    mlOp = "resetAll" =>
        /\ dbRow = <<>>
        /\ configRow = <<>>
        /\ metricsRow = <<>>
        /\ ctl.config = DEFAULT_ML_CONFIG
        /\ DOMAIN ControllerGetMetrics(ctl, metricsRow).strategyPerformance = {}
        /\ ControllerGetMetrics(ctl, metricsRow).recentAttempts = <<>>

\* resetAll on a controller that had exported a changed config and logged
\* attempts
C25_Witness ==
    /\ mlOp = "resetAll"
    /\ ctl.exported # <<>>
    /\ ctl.exported[1].config # DEFAULT_ML_CONFIG
    /\ Len(ctl.exported[1].metrics[1].recentAttempts) > 0

(***************************************************************************)
(* C26: after any sequence of trackAttempt calls and configuration changes *)
(* (a lowered performanceWindow included) recentAttempts holds at most     *)
(* performanceWindow entries.                                              *)
(***************************************************************************)
C26_LogWithinWindow ==
    (mlOp = "trackAttempt" /\ ctl.metrics # <<>>) =>
        Len(ctl.metrics[1].recentAttempts) <= ctl.config.performanceWindow


(***************************************************************************)
(* C27: scanSeedPhrase never throws and returns exactly one result entry   *)
(* per requested currency, in request order (ETH, BTC for 'both'; ETH,     *)
(* BTC, SOL for 'all'); a failure while checking one currency gives the    *)
(* zero-balance entry for that currency, and the entries of the other      *)
(* currencies are what their own replies say.                              *)
(***************************************************************************)
RequestedCurrencies(walletType) ==
    CASE walletType = "both" -> <<"ETH", "BTC">>
      [] walletType = "all" -> <<"ETH", "BTC", "SOL">>
      [] OTHER -> <<walletType>>

\* a reply the checker cannot use: a failed request, or a balance that is no
\* number
ReplyUnusable(e) == RespFailed(e.r) \/ (e.stage = "balance" /\ ~e.r.numeric)

CheckFailed(type) ==
    \E j \in 1..Len(RepliesOf(type)) : ReplyUnusable(RepliesOf(type)[j])

\* the entry the replies of `type` alone determine
EntryFromReplies(type) ==
    LET bal == StageReplies(type, "balance")[1].r
    IN IF type = "ETH"
       THEN LET tx == StageReplies(type, "txcount")[1].r
                price == StageReplies(type, "price")[1].r
            IN [address |-> DerivedAddress(type),
                balance |-> EthToFixed8(bal.val),
                balanceUSD |-> EthUsdToFixed2(bal.val,
                    IF price.tx # "absent" THEN ParseFloat(price.tx)
                    ELSE EthFallbackPrice),
                transactionCount |-> IF tx.tx # "absent" THEN ParseIntHex(tx.tx) ELSE 0,
                hasBalance |-> bal.val > 0]
       ELSE [address |-> DerivedAddress(type),
             balance |-> BtcToFixed8(bal.val),
             balanceUSD |-> BtcUsdToFixed2(bal.val, BtcPrice),
             transactionCount |-> bal.ntx,
             hasBalance |-> bal.val > 0]

MaxCount == 2         \* the largest `count` explored
MaxRouteCount == 100000   \* the route's upper limit of `count`

Currencies == {"ETH", "BTC", "SOL"}
BatchWalletTypes == {"ETH", "both", "all"}
BatchStrategies == {"adaptive", "frequency"}
BatchStreams == {<<0, 40>>, <<99, 40>>}

\* What the checks of one scan meet, by currency: the outcome of the
\* simulated draw and the replies of the upstream
Check(sim, balance, tx, price) ==
    [sim |-> sim, balance |-> balance, tx |-> tx, price |-> price]
FundedEth ==
    Check(TRUE, Resp("json", "1", TRUE, FALSE, 500000, "absent", 0),
          Resp("json", "-", FALSE, FALSE, 0, "0x3", 0),
          Resp("json", "-", FALSE, FALSE, ParseFloat("2500.00"), "2500.00", 0))
EmptyEth ==
    Check(FALSE, Resp("json", "1", TRUE, FALSE, 0, "absent", 0),
          Resp("json", "-", FALSE, FALSE, 0, "0x0", 0),
          Resp("json", "-", FALSE, FALSE, ParseFloat("2500.00"), "2500.00", 0))
FundedBtc ==
    Check(TRUE, Resp("json", "ok", TRUE, TRUE, 20000, "absent", 2), NonJson, NonJson)
EmptyBtc ==
    Check(FALSE, Resp("json", "ok", TRUE, TRUE, 0, "absent", 0), NonJson, NonJson)
Failing == Check(FALSE, Transport, Transport, Transport)

ChecksOf(eth, btc, sol) ==
    [c \in Currencies |-> IF c = "ETH" THEN eth ELSE IF c = "BTC" THEN btc ELSE sol]
ScanChecks ==
    {ChecksOf(EmptyEth, EmptyBtc, EmptyBtc),
     ChecksOf(Failing, Failing, Failing),
     ChecksOf(FundedEth, Failing, FundedBtc),
     ChecksOf(EmptyEth, FundedBtc, Failing)}

\* checkWalletBalance without the real API: `hasBalance` is the outcome of
\* Math.random() < 0.00001
SimulatedBalance(address, hasBalance) ==
    IF hasBalance
    THEN [ZeroResult(address) EXCEPT
             !.balance = Str(1, 8), !.balanceUSD = Str(1, 2),
             !.transactionCount = 1, !.hasBalance = TRUE]
    ELSE ZeroResult(address)

\* checkEthereumBalance: the whole function, given the three replies
CheckEthereumBalance(address, rb, rt, rp) ==
    IF ~(EthReplyArrives(rb) /\ EthStatusOk(rb) /\ rb.numeric)
    THEN CaughtByChecker(address)
    ELSE IF ~EthReplyArrives(rt) THEN CaughtByChecker(address)
    ELSE IF ~EthReplyArrives(rp) THEN CaughtByChecker(address)
    ELSE Returned(EthResult(address, rb.val,
                            IF rt.tx # "absent" THEN ParseIntHex(rt.tx) ELSE 0,
                            rp))

\* checkWalletBalanceWithRetry: the first attempt that returns ends the
\* loop; every attempt meets the same replies here
CheckWalletBalanceWithRetry(address, type, check) ==
    LET inner == IF UsesEthereumChecker(type)
                 THEN CheckEthereumBalance(address, check.balance, check.tx,
                                           check.price)
                 ELSE CheckBitcoinBalance(address, check.balance)
    IN IF ~inner.threw THEN inner ELSE RetriesExhausted(address)

\* checkWalletBalance(address, type, useRealAPI)
CheckWalletBalance(address, type, useRealAPI, check) ==
    IF useRealAPI THEN CheckWalletBalanceWithRetry(address, type, check)
    ELSE Returned(SimulatedBalance(address, check.sim))

\* scanSeedPhrase(seedPhrase, walletType, useRealAPI): `{type, ...balanceInfo}`
\* per type; an exception of a check would leave the function
ScanSeedPhrase(seedPhrase, walletType, useRealAPI, checks) ==
    LET types == TypesToCheck(walletType)
        info == [k \in 1..Len(types) |->
                    CheckWalletBalance(DerivedAddress(types[k]), types[k],
                                       useRealAPI, checks[types[k]])]
    IN [threw |-> \E k \in 1..Len(types) : info[k].threw,
        seedPhrase |-> seedPhrase,
        results |-> [k \in 1..Len(types) |->
                        [type |-> types[k],
                         address |-> info[k].value.address,
                         balance |-> info[k].value.balance,
                         balanceUSD |-> info[k].value.balanceUSD,
                         transactionCount |-> info[k].value.transactionCount,
                         hasBalance |-> info[k].value.hasBalance]]]

\* batchScan: `strategy || 'random'`; the empty text stands for undefined
ActualBatchStrategy(strategy) == IF strategy = "" THEN "random" ELSE strategy

\* batchScan: `useAdvancedML && advancedMLState && advancedMLState.bigrams.size > 0`
UsesNGrams(b, advancedMLState) ==
    b.useAdvancedML /\ b.hasAdvanced /\ DOMAIN advancedMLState.bigrams # {}

\* batchScan: the phrase an iteration generates, as its tokens
GeneratedPhrase(b, mlState, advancedMLState, stream) ==
    IF UsesNGrams(b, advancedMLState)
    THEN GenerateWithNGrams(advancedMLState, b.wordCount, "adaptive", stream)
    ELSE IF b.hasMl
    THEN GenerateSmartSeedPhrase(mlState, b.wordCount,
                                 ActualBatchStrategy(b.strategy), stream)
    ELSE Join(GeneratePureRandom(b.wordCount, stream))

\* batchScan: the wallets one scan result adds to foundWallets
FoundWallets_FirstCurrency(seedPhrase, results) ==
    IF results[1].hasBalance
    THEN <<[seedPhrase |-> seedPhrase, type |-> results[1].type,
            address |-> results[1].address, balance |-> results[1].balance,
            balanceUSD |-> results[1].balanceUSD,
            transactionCount |-> results[1].transactionCount]>>
    ELSE <<>>
FoundWallets(seedPhrase, results) ==
    LET funded == SelectSeq(results, LAMBDA r : r.hasBalance)
    IN [k \in 1..Len(funded) |->
           [seedPhrase |-> seedPhrase, type |-> funded[k].type,
            address |-> funded[k].address, balance |-> funded[k].balance,
            balanceUSD |-> funded[k].balanceUSD,
            transactionCount |-> funded[k].transactionCount]]

\* batchScan: `i < count`
LoopContinues_Inclusive(i, count) == i <= count
LoopContinues(i, count) == i < count

\* the route: `count < 1 || count > 100000`
CountRefused(count) == count < 1 \/ count > MaxRouteCount

\* the route: `useML && mlState && db`
LearningOn(b) == b.useML /\ b.hasMl /\ b.db

\* the route: the loop over result.foundWallets has ended
LearnsDone_AtOnce(b) == TRUE
LearnsDone(b) == b.j >= Len(b.result.foundWallets)

\* the text of a generated phrase as learnFromSuccess splits it: an empty
\* token leaves no word
WordsOfText(tokens) == SelectSeq(tokens, LAMBDA w : w # "")

\* the ml_state rows a request may find: the migration's row, a saved basic
\* state with ten successes and a saved advanced state
BatchRows ==
    {<<InitialRow>>,
     SaveMLState(<<>>, LearnedTimes(ScenarioPhrase, 10, Epoch)),
     SaveAdvancedMLState(<<>>,
         LearnFromSuccessAdvanced(FreshAdvancedState(Epoch), ScenarioPhrase, Epoch),
         Epoch)}

InitBatch ==
    /\ RLIdle
    /\ BalIdle
    /\ BatIdle
    /\ ml = FreshMLState(Epoch)
    /\ adv = FreshAdvancedState(Epoch)
    /\ mlOp = "none"
    /\ mlPhrase = <<>>
    /\ dbRow \in BatchRows
    /\ submissions = <<>>
    /\ configRow = <<InitialConfigRow>>
    /\ metricsRow = <<InitialMetricsRow>>
    /\ gen = NoGen
    /\ mlSteps = 0
    /\ ctl = NewController

batFrame == <<mlOp, mlPhrase, submissions, configRow, metricsRow, gen, mlSteps, ctl>>

\* batchScan has not returned
NoResult ==
    [totalScanned |-> 0, totalFound |-> 0, foundWallets |-> <<>>,
     strategyUsed |-> ""]

\* the frame when batchScan is entered
Frame(route, count, walletType, useRealAPI, db, useML, hasMl, strategy,
      useAdvancedML, hasAdvanced, loaded) ==
    [pc |-> "scanning", route |-> route, count |-> count, wordCount |-> 12,
     walletType |-> walletType, useRealAPI |-> useRealAPI, db |-> db,
     useML |-> useML, hasMl |-> hasMl, strategy |-> strategy,
     useAdvancedML |-> useAdvancedML, hasAdvanced |-> hasAdvanced,
     loaded |-> loaded, i |-> 0, iterations |-> <<>>, foundWallets |-> <<>>,
     result |-> NoResult, j |-> 0, saved |-> FALSE]

\* batchScan(count, wordCount, walletType, useRealAPI) called without
\* learning states, as the earlier routes call it
BatchScanCall(count, walletType, useRealAPI) ==
    /\ batch.pc = "idle"
    /\ batch' = Frame(FALSE, count, walletType, useRealAPI, FALSE, FALSE, FALSE,
                      "", FALSE, FALSE, ml)
    /\ UNCHANGED <<ml, adv, dbRow, batFrame>>
    /\ UNCHANGED nonBatVars

\* POST /api/wallet/batch-scan up to the call of batchScan: the validation
\* and the loading of the learning states
BatchScanRequest(count, walletType, useRealAPI, db, useML, mlStrategy, useAdvancedML) ==
    /\ batch.pc = "idle"
    /\ IF CountRefused(count)
       THEN /\ batch' = [pc |-> "refused", count |-> count]
            /\ UNCHANGED <<ml, adv>>
       ELSE LET hasMl == useML /\ db /\ ~InitializeMLStateThrows(dbRow)
                hasAdvanced == useAdvancedML /\ db
                mlState == IF hasMl THEN InitializeMLState(dbRow, now) ELSE ml
            IN /\ ml' = mlState
               /\ adv' = IF hasAdvanced THEN InitializeAdvancedMLState(dbRow, now)
                         ELSE adv
               /\ batch' = Frame(TRUE, count, walletType, useRealAPI, db, useML,
                                 hasMl, mlStrategy, useAdvancedML, hasAdvanced,
                                 mlState)
    /\ UNCHANGED <<dbRow, batFrame>>
    /\ UNCHANGED nonBatVars

\* batchScan: one iteration of the loop; nothing catches, so an exception of
\* the scan would leave batchScan
BatchIteration(stream, checks) ==
    /\ batch.pc = "scanning"
    /\ LoopContinues(batch.i, batch.count)
    /\ LET seedPhrase == GeneratedPhrase(batch, ml, adv, stream)
           scanResult == ScanSeedPhrase(seedPhrase, batch.walletType,
                                        batch.useRealAPI, checks)
       IN batch' =
            IF scanResult.threw
            THEN [batch EXCEPT !.pc = "threw"]
            ELSE [batch EXCEPT
                     !.i = @ + 1,
                     !.iterations =
                         Append(@, [seedPhrase |-> seedPhrase, checks |-> checks]),
                     !.foundWallets =
                         @ \o FoundWallets(seedPhrase, scanResult.results)]
    /\ UNCHANGED <<ml, adv, dbRow, batFrame>>
    /\ UNCHANGED nonBatVars

\* batchScan returns; the route goes on to its learning block
BatchReturn ==
    /\ batch.pc = "scanning"
    /\ ~LoopContinues(batch.i, batch.count)
    /\ batch' = [batch EXCEPT
                    !.pc = IF ~batch.route THEN "returned"
                           ELSE IF LearningOn(batch) THEN "learning"
                           ELSE "done",
                    !.result = [totalScanned |-> batch.count,
                                totalFound |-> Len(batch.foundWallets),
                                foundWallets |-> batch.foundWallets,
                                strategyUsed |-> ActualBatchStrategy(batch.strategy)]]
    /\ UNCHANGED <<ml, adv, dbRow, batFrame>>
    /\ UNCHANGED nonBatVars

\* the route: learnFromSuccess for the next found wallet
RouteLearn ==
    /\ batch.pc = "learning"
    /\ ~LearnsDone(batch)
    /\ ml' = LearnFromSuccess(ml,
                 WordsOfText(batch.result.foundWallets[batch.j + 1].seedPhrase), now)
    /\ batch' = [batch EXCEPT !.j = @ + 1]
    /\ UNCHANGED <<adv, dbRow, batFrame>>
    /\ UNCHANGED nonBatVars

\* the route: updateAttempts(mlState, result.totalScanned), in either branch
RouteUpdateAttempts ==
    /\ batch.pc = "learning"
    /\ LearnsDone(batch)
    /\ ml' = UpdateAttempts(ml, batch.result.totalScanned, now)
    /\ batch' = [batch EXCEPT !.pc = "saving"]
    /\ UNCHANGED <<adv, dbRow, batFrame>>
    /\ UNCHANGED nonBatVars

\* the route: await saveMLState(db, mlState); saveMLState logs a failure of
\* the write and returns
RouteSave(written) ==
    /\ batch.pc = "saving"
    /\ dbRow' = IF written THEN SaveMLState(dbRow, ml) ELSE dbRow
    /\ batch' = [batch EXCEPT !.pc = "done", !.saved = written]
    /\ UNCHANGED <<ml, adv, batFrame>>
    /\ UNCHANGED nonBatVars

NextBatch ==
    \/ \E count \in 0..MaxCount, w \in BatchWalletTypes, real \in BOOLEAN :
           BatchScanCall(count, w, real)
    \/ \E count \in 0..MaxCount, w \in BatchWalletTypes, real \in BOOLEAN,
          db \in BOOLEAN, useML \in BOOLEAN, s \in BatchStrategies,
          useAdvancedML \in BOOLEAN :
           BatchScanRequest(count, w, real, db, useML, s, useAdvancedML)
    \/ \E r \in BatchStreams, c \in ScanChecks : BatchIteration(r, c)
    \/ BatchReturn
    \/ RouteLearn
    \/ RouteUpdateAttempts
    \/ \E written \in BOOLEAN : RouteSave(written)

SpecBatch == InitBatch /\ [][NextBatch]_vars


\* batchScan has returned to its caller
BatchReturned == batch.pc \in {"returned", "learning", "saving", "done"}

\* a check that cannot give a balance: a failed request or, for Ethereum, an
\* unusable reply of any of its three requests
CheckFaulty(type, check) ==
    IF type = "ETH"
    THEN \/ RespFailed(check.balance) \/ ~check.balance.numeric
         \/ RespFailed(check.tx)
         \/ RespFailed(check.price)
    ELSE RespFailed(check.balance) \/ ~check.balance.numeric

\* iteration k met a fault in the check of a currency it asked for
IterationFaulty(k) ==
    /\ batch.useRealAPI
    /\ \E n \in 1..Len(RequestedCurrencies(batch.walletType)) :
          CheckFaulty(RequestedCurrencies(batch.walletType)[n],
                      batch.iterations[k].checks[RequestedCurrencies(batch.walletType)[n]])

\* the currencies of iteration k that hold a balance, in request order
FundedCurrencies(k) ==
    SelectSeq(RequestedCurrencies(batch.walletType),
              LAMBDA c :
                  IF batch.useRealAPI
                  THEN /\ ~CheckFaulty(c, batch.iterations[k].checks[c])
                       /\ batch.iterations[k].checks[c].balance.val > 0
                  ELSE batch.iterations[k].checks[c].sim)

\* phrase and currency of the wallets iterations 1..k hold
RECURSIVE WalletsUpTo(_)
WalletsUpTo(k) ==
    IF k = 0 THEN <<>>
    ELSE WalletsUpTo(k - 1) \o
         [n \in 1..Len(FundedCurrencies(k)) |->
             [seedPhrase |-> batch.iterations[k].seedPhrase,
              type |-> FundedCurrencies(k)[n]]]

PhraseAndType(wallets) ==
    [n \in 1..Len(wallets) |->
        [seedPhrase |-> wallets[n].seedPhrase, type |-> wallets[n].type]]

(***************************************************************************)
(* C28: no exception aborts a batchScan loop in progress: a fault of a     *)
(* check in one iteration stays in that iteration, the loop runs through   *)
(* all count iterations, and the wallets found in the other iterations     *)
(* are returned.                                                           *)
(***************************************************************************)
C28_FaultConfined ==
    /\ batch.pc # "threw"
    /\ batch.pc = "scanning" =>
          PhraseAndType(batch.foundWallets) = WalletsUpTo(Len(batch.iterations))
    /\ BatchReturned =>
          /\ Len(batch.iterations) = batch.count
          /\ PhraseAndType(batch.result.foundWallets) = WalletsUpTo(batch.count)

\* a batch of two scans against the real API has returned: every check of
\* the first iteration failed, the second iteration found a wallet
C28_Witness ==
    /\ batch.pc = "returned"
    /\ batch.useRealAPI
    /\ batch.count = 2
    /\ IterationFaulty(1)
    /\ FundedCurrencies(1) = <<>>
    /\ FundedCurrencies(2) # <<>>
    /\ batch.result.totalFound = Len(FundedCurrencies(2))

\* the state after learnFromSuccess for the first k of `wallets`
RECURSIVE LearnedAll(_, _, _)
LearnedAll(state, wallets, k) ==
    IF k = 0 THEN state
    ELSE LearnFromSuccess(LearnedAll(state, wallets, k - 1),
                          WordsOfText(wallets[k].seedPhrase), now)

(***************************************************************************)
(* C29: when a batch scan with learning enabled completes, every found     *)
(* phrase is passed to learnFromSuccess before totalAttempts grows by the  *)
(* number scanned, and both happen before the state is written: the        *)
(* written state holds the successes of the batch and its attempts.        *)
(***************************************************************************)
C29_Step ==
    LET found == batch.result.foundWallets
        loaded == batch.loaded
    IN /\ (batch.pc = "learning" /\ ml'.totalSuccesses # ml.totalSuccesses) =>
             /\ ml.totalAttempts = loaded.totalAttempts
             /\ dbRow' = dbRow
       /\ (batch.pc = "learning" /\ ml'.totalAttempts # ml.totalAttempts) =>
             /\ ml = LearnedAll(loaded, found, Len(found))
             /\ ml'.totalAttempts = loaded.totalAttempts + batch.result.totalScanned
             /\ dbRow' = dbRow
       /\ dbRow' # dbRow =>
             /\ batch.pc = "saving"
             /\ LET written == InitializeMLState(dbRow', now)
                    expected == LearnedAll(loaded, found, Len(found))
                IN /\ written.totalSuccesses = loaded.totalSuccesses + Len(found)
                   /\ written.totalAttempts =
                          loaded.totalAttempts + batch.result.totalScanned
                   /\ written.wordFrequency = expected.wordFrequency
                   /\ written.positionPreferences = expected.positionPreferences
                   /\ written.wordPairs = expected.wordPairs

C29_LearnCountSave == [][C29_Step]_vars

\* a request with learning has ended: two wallets were found and the
\* written state has their two successes and the attempts of the batch
C29_Witness ==
    /\ batch.pc = "done"
    /\ batch.saved
    /\ Len(batch.result.foundWallets) >= 2
    /\ InitializeMLState(dbRow, now).totalSuccesses =
           batch.loaded.totalSuccesses + Len(batch.result.foundWallets)
    /\ InitializeMLState(dbRow, now).totalAttempts =
           batch.loaded.totalAttempts + batch.count

(***************************************************************************)
(* C30: batchScan performs exactly count iterations and returns            *)
(* totalScanned = count and totalFound = the length of the found list;     *)
(* for count = 0 it scans nothing and returns 0, 0 and an empty list       *)
(* without an error.                                                       *)
(***************************************************************************)
C30_ExactlyCount ==
    /\ batch.pc = "scanning" => Len(batch.iterations) <= batch.count
    /\ BatchReturned =>
          /\ Len(batch.iterations) = batch.count
          /\ batch.result.totalScanned = batch.count
          /\ batch.result.totalFound = Len(batch.result.foundWallets)
          /\ batch.count = 0 =>
                /\ batch.result.totalScanned = 0
                /\ batch.result.totalFound = 0
                /\ batch.result.foundWallets = <<>>
    /\ (batch.pc = "threw") => batch.count > 0

\* batchScan(0, ...) has returned
C30_Witness ==
    /\ batch.pc = "returned"
    /\ batch.count = 0
    /\ batch.iterations = <<>>
    /\ batch.result.totalScanned = 0


(***************************************************************************)
(* The wordlist (bip39) and a draw from it                                 *)
(***************************************************************************)
\* BIP39_WORDLIST, every entry in source order
BIP39_WORDLIST ==
    <<
      "abandon", "ability", "able", "about", "above", "absent", "absorb", "abstract",
      "absurd", "abuse", "access", "accident", "account", "accuse", "achieve", "acid",
      "acoustic", "acquire", "across", "act", "action", "actor", "actress", "actual",
      "adapt", "add", "addict", "address", "adjust", "admit", "adult", "advance",
      "advice", "aerobic", "affair", "afford", "afraid", "again", "age", "agent",
      "agree", "ahead", "aim", "air", "airport", "aisle", "alarm", "album",
      "alcohol", "alert", "alien", "all", "alley", "allow", "almost", "alone",
      "alpha", "already", "also", "alter", "always", "amateur", "amazing", "among",
      "amount", "amused", "analyst", "anchor", "ancient", "anger", "angle", "angry",
      "animal", "ankle", "announce", "annual", "another", "answer", "antenna", "antique",
      "anxiety", "any", "apart", "apology", "appear", "apple", "approve", "april",
      "arch", "arctic", "area", "arena", "argue", "arm", "armed", "armor",
      "army", "around", "arrange", "arrest", "arrest", "arrive", "arrow", "art",
      "artefact", "artist", "artwork", "ask", "aspect", "assault", "asset", "assist",
      "assume", "asthma", "athlete", "atom", "attack", "attend", "attitude", "attract",
      "auction", "audit", "august", "aunt", "author", "auto", "autumn", "average",
      "avocado", "avoid", "awake", "aware", "away", "awesome", "awful", "awkward",
      "axis", "baby", "bachelor", "bacon", "badge", "bag", "balance", "balcony",
      "ball", "bamboo", "banana", "banner", "bar", "barely", "bargain", "barrel",
      "base", "basic", "basket", "battle", "beach", "bean", "beauty", "because",
      "become", "beef", "before", "begin", "behave", "behind", "believe", "below",
      "belt", "bench", "benefit", "best", "betray", "better", "between", "beyond",
      "bicycle", "bid", "bike", "bind", "biology", "bird", "birth", "bitter",
      "black", "blade", "blame", "blanket", "blast", "bleak", "bless", "blind",
      "blood", "blossom", "blouse", "blue", "blur", "blush", "board", "boat",
      "body", "boil", "bomb", "bone", "bonus", "book", "boost", "border",
      "boring", "borrow", "boss", "bottom", "bounce", "box", "boy", "bracket",
      "brain", "brand", "brass", "brave", "bread", "breeze", "brick", "bridge",
      "brief", "bright", "bring", "brisk", "broccoli", "broken", "bronze", "broom",
      "brother", "brown", "brush", "bubble", "buddy", "budget", "buffalo", "build",
      "bulb", "bulk", "bullet", "bundle", "bunker", "burden", "burger", "burst",
      "bus", "business", "busy", "butter", "buyer", "buzz", "cabbage", "cabin",
      "cable", "cactus", "cage", "cake"
    >>

\* Math.random() for one draw, in 1/DrawUnit: two values per index
DrawUnit == 520
\* Math.floor(Math.random() * BIP39_WORDLIST.length), counting from 1
DrawIndex(r) == (r * Len(BIP39_WORDLIST)) \div DrawUnit + 1

InitDraw ==
    /\ BatIdle
    /\ RLIdle
    /\ BalIdle
    /\ MlIdle

\* BIP39_WORDLIST[Math.floor(Math.random() * BIP39_WORDLIST.length)]: one
\* draw, as every generator makes it; the list itself is a constant
DrawWord(r) ==
    /\ gen' = [NoGen EXCEPT !.op = "draw", !.random = <<r, DrawIndex(r)>>,
                            !.words = <<BIP39_WORDLIST[DrawIndex(r)]>>]
    /\ mlOp' = "draw"
    /\ UNCHANGED <<ml, adv, mlPhrase, dbRow, submissions, configRow,
                   metricsRow, mlSteps, ctl>>
    /\ UNCHANGED nonMlVars

NextDraw == \E r \in 0..(DrawUnit - 1) : DrawWord(r)

SpecDraw == InitDraw /\ [][NextDraw]_vars

\* the indices at which a token occurs, and the random values that select it
IndicesOf(token) == {i \in 1..Len(BIP39_WORDLIST) : BIP39_WORDLIST[i] = token}
DrawsOf(token) == {r \in 0..(DrawUnit - 1) : BIP39_WORDLIST[DrawIndex(r)] = token}

(***************************************************************************)
(* C31: the wordlist is a fixed sequence of pairwise-distinct tokens: no   *)
(* token occurs at two indices, so a uniform index draw selects every      *)
(* token with equal weight.                                                *)
(***************************************************************************)
C31_DistinctTokens ==
    gen.op = "draw" =>
        /\ Cardinality(IndicesOf(gen.words[1])) = 1
        /\ Cardinality(DrawsOf(gen.words[1])) =
               Cardinality(DrawsOf(BIP39_WORDLIST[1]))


(***************************************************************************)
(* The controller's decay of the basic learning state (ml-controller)      *)
(*                                                                         *)
(* The clock counts days. The controller holds one of three               *)
(* configurations: the defaults, a decayFactor of 1.0, and a fast decay    *)
(* that starts after one day.                                              *)
(***************************************************************************)
MaxDecaySteps == 3    \* learn and decay calls explored
MaxDecayDays == 33    \* days the clock runs
DecayDaySteps == {1, 31}
DecayPhrases == {ScenarioPhrase, <<"abandon", "abandon">>}
DecayConfigs ==
    {DEFAULT_ML_CONFIG,
     [DEFAULT_ML_CONFIG EXCEPT !.decayFactor = 100],
     [DEFAULT_ML_CONFIG EXCEPT !.decayFactor = 50, !.maxPatternAge = 1]}

InitDecay ==
    /\ BatIdle
    /\ RLIdle
    /\ BalIdle
    /\ adv = FreshAdvancedState(Epoch)
    /\ mlOp = "none"
    /\ mlPhrase = <<>>
    /\ dbRow = <<InitialRow>>
    /\ submissions = <<>>
    /\ configRow = <<InitialConfigRow>>
    /\ metricsRow = <<InitialMetricsRow>>
    /\ gen = NoGen
    /\ mlSteps = 0
    /\ ml = FreshMLState(Epoch)
    /\ \E config \in DecayConfigs : ctl = [NewController EXCEPT !.config = config]

\* days pass between two calls
DecayDaysPass(d) ==
    /\ now + d <= Epoch + MaxDecayDays
    /\ now' = now + d
    /\ mlOp' = "wait"
    /\ UNCHANGED <<minInterval, queue, processing, lastCall, items, promise,
                   loops, started>>
    /\ UNCHANGED <<ml, adv, mlPhrase, dbRow, submissions, configRow,
                   metricsRow, gen, mlSteps, ctl>>
    /\ UNCHANGED <<balVars, batVars>>

\* learnFromSuccess(state, seedPhrase, ...)
DecayLearn(seedPhrase) ==
    /\ mlSteps < MaxDecaySteps
    /\ mlSteps' = mlSteps + 1
    /\ ml' = LearnFromSuccess(ml, seedPhrase, now)
    /\ mlOp' = "learn"
    /\ mlPhrase' = TrimLowerSplit(seedPhrase)
    /\ UNCHANGED <<adv, dbRow, submissions, configRow, metricsRow, gen, ctl>>
    /\ UNCHANGED nonMlVars

\* controller.applyPatternDecay(state)
Decay ==
    /\ mlSteps < MaxDecaySteps
    /\ mlSteps' = mlSteps + 1
    /\ ml' = ControllerApplyPatternDecay(ml, ctl.config, now)
    /\ mlOp' = "decay"
    /\ UNCHANGED <<adv, mlPhrase, dbRow, submissions, configRow, metricsRow,
                   gen, ctl>>
    /\ UNCHANGED nonMlVars

NextDecay ==
    \/ \E d \in DecayDaySteps : DecayDaysPass(d)
    \/ \E p \in DecayPhrases : DecayLearn(p)
    \/ Decay

SpecDecay == InitDecay /\ [][NextDecay]_vars

\* floor(c * decayFactor^n)
FloorDecayed(c, decayFactor, n) == (c * DecayFactor(decayFactor, n)) \div FactorUnit

\* every count of `after` is the floored product of the count of `before`
MapDecayed(before, after, decayFactor, n) ==
    /\ DOMAIN after = DOMAIN before
    /\ \A k \in DOMAIN before : after[k] = FloorDecayed(before[k], decayFactor, n)

NestedDecayed(before, after, decayFactor, n) ==
    /\ DOMAIN after = DOMAIN before
    /\ \A k \in DOMAIN before : MapDecayed(before[k], after[k], decayFactor, n)

(***************************************************************************)
(* C32: applyPatternDecay of the controller leaves the state unchanged     *)
(* when decayFactor >= 1.0 or fewer than maxPatternAge days have passed    *)
(* since lastUpdated; otherwise every wordFrequency, positionPreferences   *)
(* and wordPairs count c becomes floor(c * decayFactor^(days -             *)
(* maxPatternAge)) and totalSuccesses and totalAttempts stay.              *)
(***************************************************************************)
C32_DecayStep ==
    mlOp' = "decay" =>
        LET config == ctl.config
            days == now - ml.lastUpdated
            n == days - config.maxPatternAge
        IN IF config.decayFactor >= 100 \/ days < config.maxPatternAge
           THEN ml' = ml
           ELSE /\ MapDecayed(ml.wordFrequency, ml'.wordFrequency,
                              config.decayFactor, n)
                /\ NestedDecayed(ml.positionPreferences, ml'.positionPreferences,
                                 config.decayFactor, n)
                /\ NestedDecayed(ml.wordPairs, ml'.wordPairs,
                                 config.decayFactor, n)
                /\ ml'.totalSuccesses = ml.totalSuccesses
                /\ ml'.totalAttempts = ml.totalAttempts

C32_ControllerDecay == [][C32_DecayStep]_vars

\* the scenario phrase was learned twice under the default configuration,
\* 31 days passed and the decay left 1 = floor(2 * 0.95) of each count
C32_Witness ==
    /\ mlOp = "decay"
    /\ ctl.config = DEFAULT_ML_CONFIG
    /\ now - ml.lastUpdated = 31
    /\ ml.totalSuccesses = 2
    /\ Get(ml.wordFrequency, "ability") = 1
    /\ GetNested(ml.wordPairs, "abandon", "ability") = 1

\* the counts a map holds
Counts(map) == {map[k] : k \in DOMAIN map}
NestedCounts(map) == UNION {Counts(map[k]) : k \in DOMAIN map}
AllCounts(state) ==
    Counts(state.wordFrequency) \cup NestedCounts(state.positionPreferences)
        \cup NestedCounts(state.wordPairs)

(***************************************************************************)
(* C33: in every basic learning state reached by learn and decay calls     *)
(* every count is >= 0, and after a decay no map keeps an entry whose      *)
(* count has fallen to zero.                                               *)
(***************************************************************************)
C33_CountsPruned ==
    /\ \A c \in AllCounts(ml) : c >= 0
    /\ mlOp = "decay" => 0 \notin AllCounts(ml)


(***************************************************************************)
(* The write paths of the controller's configuration, POST /api/ml/config  *)
(* among them: the route hands the request body to saveConfig              *)
(***************************************************************************)
\* request bodies of POST /api/ml/config, which the route gives to
\* saveConfig after new MLController(db) and loadConfig()
ConfigWrites ==
    {[performanceWindow |-> 1],
     [learningRate |-> 150],
     [hybridWeights |-> [frequency |-> 90, positional |-> 40, correlation |-> 30]]}

NextConfig ==
    \/ CtlNew
    \/ CtlLoadConfig
    \/ \E u \in ConfigWrites : CtlSaveConfig(u)
    \/ \E r \in Rates : SetLearningRate(r)
    \/ \E w \in WeightUpdates, rounding \in Roundings : SetHybridWeights(w, rounding)
    \/ \E d \in ImportData : ImportState(d)

SpecConfig == InitCtl /\ [][NextConfig]_vars

\* learningRate in [0, 1], the three weights present and summing to 1.0
\* within 0.01
ConfigValid(config) ==
    /\ 0 <= config.learningRate
    /\ config.learningRate <= 100
    /\ DOMAIN config.hybridWeights = {"frequency", "positional", "correlation"}
    /\ Abs(WeightSum(config.hybridWeights) - 100) <= 1

(***************************************************************************)
(* C34: in every configuration reached through a write path of the         *)
(* controller, in memory and in ml_config, learningRate lies in [0, 1] and *)
(* the three hybrid weights are present and sum to 1.0 within 0.01.        *)
(***************************************************************************)
C34_ConfigValid ==
    /\ ConfigValid(ctl.config)
    /\ ConfigValid(LoadConfig(configRow))

(***************************************************************************)
(* C35: when the route's batch scan ran with the advanced N-gram model     *)
(* (useAdvancedML, state loaded) and has answered, every found phrase has  *)
(* been fed to learnFromSuccessAdvanced and the updated advanced state has *)
(* been persisted: the state the invocation holds and the state read back  *)
(* from the ml_state row both count at least the phrases of this batch     *)
(* (each generated phrase has 12 words).                                   *)
(***************************************************************************)
C35_AdvancedLearned ==
    (/\ batch.pc = "done"
     /\ batch.route
     /\ batch.useAdvancedML
     /\ batch.hasAdvanced
     /\ Len(batch.result.foundWallets) > 0) =>
        /\ adv.totalSuccesses >= Len(batch.result.foundWallets)
        /\ adv.successBy12Words >= Len(batch.result.foundWallets)
        /\ InitializeAdvancedMLState(dbRow, now).successBy12Words
               >= Len(batch.result.foundWallets)

(***************************************************************************)
(* The adaptive strategy under a configuration whose thresholds change:    *)
(* the controller stores autoSwitchThresholds, states are learned, phrases *)
(* are generated.                                                          *)
(***************************************************************************)
\* the autoSwitchThresholds saved: the defaults, and a lower first threshold
ThresholdWrites ==
    {[autoSwitchThresholds |-> DEFAULT_ML_CONFIG.autoSwitchThresholds],
     [autoSwitchThresholds |->
          [minSuccessesForFrequency |-> 5,
           minSuccessesForPositional |-> 50,
           minSuccessesForHybrid |-> 100]]}

NextAdaptive ==
    \/ \E u \in ThresholdWrites : CtlSaveConfig(u)
    \/ \E p \in GenPhrases : GenLearn(p)
    \/ \E s \in Strategies, n \in WordCounts, r \in RandomStreams :
           Generate(s, n, r)

SpecAdaptive == InitGen /\ [][NextAdaptive]_vars

\* the strategy the thresholds of a configuration give for a success count
ConfiguredStrategy(totalSuccesses, thresholds) ==
    IF totalSuccesses < thresholds.minSuccessesForFrequency THEN "random"
    ELSE IF totalSuccesses < thresholds.minSuccessesForPositional THEN "frequency"
    ELSE IF totalSuccesses < thresholds.minSuccessesForHybrid THEN "positional"
    ELSE "hybrid"

(***************************************************************************)
(* C36: the thresholds of the adaptive strategy are the configured         *)
(* StrategyConfig.autoSwitchThresholds: a generation under "adaptive" runs *)
(* the strategy those thresholds give for the state's totalSuccesses, so   *)
(* changing them changes the resolved strategy.                            *)
(***************************************************************************)
C36_ConfiguredThresholds ==
    (mlOp = "generate" /\ gen.strategy = "adaptive") =>
        /\ gen.actual = ConfiguredStrategy(ml.totalSuccesses,
                                           ctl.config.autoSwitchThresholds)
        /\ gen.actual = ConfiguredStrategy(ml.totalSuccesses,
                            LoadConfig(configRow).autoSwitchThresholds)

(***************************************************************************)
(* deriveWalletAddress: the address made from the SHA-256 digest of        *)
(* seedPhrase + type.  A text is the sequence of its characters.           *)
(***************************************************************************)
MaxDigestSlope == 7   \* digests have the bytes (a * i + b) % 256, a up to this
DigestOffsets == {0, 57, 58, 200, 255}

\* `crypto.subtle.digest('SHA-256', data)`: 32 bytes
Digest(a, b) == [i \in 1..32 |-> (a * i + b) % 256]

HexDigits ==
    <<"0", "1", "2", "3", "4", "5", "6", "7", "8", "9", "a", "b", "c", "d", "e", "f">>
Base58Chars ==
    <<"1", "2", "3", "4", "5", "6", "7", "8", "9",
      "A", "B", "C", "D", "E", "F", "G", "H", "J", "K", "L", "M", "N", "P", "Q",
      "R", "S", "T", "U", "V", "W", "X", "Y", "Z",
      "a", "b", "c", "d", "e", "f", "g", "h", "i", "j", "k", "m", "n", "o", "p",
      "q", "r", "s", "t", "u", "v", "w", "x", "y", "z">>

\* hashArray.map(b => b.toString(16).padStart(2, '0')).join('')
HashHex(hash) ==
    [k \in 1..(2 * Len(hash)) |->
        IF k % 2 = 1 THEN HexDigits[(hash[(k + 1) \div 2] \div 16) + 1]
        ELSE HexDigits[(hash[(k + 1) \div 2] % 16) + 1]]

\* parseInt(text, 16) of hex digits; of the empty text it is NaN
ParseIntNaN(text) == text = <<>>
RECURSIVE ParseInt16(_)
ParseInt16(text) ==
    IF text = <<>> THEN 0
    ELSE 16 * ParseInt16(SubSeq(text, 1, Len(text) - 1))
         + (CHOOSE n \in 0..15 : HexDigits[n + 1] = text[Len(text)])

\* `address += base58Chars[index]` with index = parseInt(text, 16) % 58:
\* the index NaN selects undefined, which `+=` appends as text
Base58Appended(address, text) ==
    IF ParseIntNaN(text)
    THEN address \o <<"u", "n", "d", "e", "f", "i", "n", "e", "d">>
    ELSE address \o <<Base58Chars[(ParseInt16(text) % Len(Base58Chars)) + 1]>>

\* BTC: `for (let i = 0; i < 33; i++)`
RECURSIVE BtcAddress(_, _, _)
BtcAddress(address, hashHex, i) ==
    IF i < 33
    THEN BtcAddress(Base58Appended(address, Slice(hashHex, i * 2, i * 2 + 2)),
                    hashHex, i + 1)
    ELSE address

\* SOL: `for (let i = 0; i < 44; i++)`, the slice taken modulo the length
\* and `|| '00'` for an empty slice
RECURSIVE SolAddress(_, _, _)
SolAddress(address, hashHex, i) ==
    IF i < 44
    THEN LET text == Slice(hashHex, (i * 2) % Len(hashHex),
                           (i * 2 + 2) % Len(hashHex))
         IN SolAddress(Base58Appended(address,
                                      IF text = <<>> THEN <<"0", "0">> ELSE text),
                       hashHex, i + 1)
    ELSE address

\* deriveWalletAddress(seedPhrase, type), from the digest on
DeriveWalletAddress(hash, type) ==
    LET hashHex == HashHex(hash)
    IN CASE type = "ETH" -> <<"0", "x">> \o Slice(hashHex, 0, 40)
         [] type = "BTC" -> BtcAddress(<<"1">>, hashHex, 0)
         [] type = "SOL" -> SolAddress(<<>>, hashHex, 0)
         [] OTHER -> <<>>

\* one call; `gen` holds the digest's parameters, the type and the address
DeriveAddress(a, b, type) ==
    /\ gen' = [NoGen EXCEPT !.op = "derive", !.strategy = type,
                            !.random = <<a, b>>,
                            !.words = DeriveWalletAddress(Digest(a, b), type)]
    /\ mlOp' = "derive"
    /\ UNCHANGED <<ml, adv, mlPhrase, dbRow, submissions, configRow,
                   metricsRow, mlSteps, ctl>>
    /\ UNCHANGED nonMlVars

NextDerive ==
    \E a \in 0..MaxDigestSlope, b \in DigestOffsets, type \in Currencies :
        DeriveAddress(a, b, type)

SpecDerive == InitDraw /\ [][NextDerive]_vars

IsHex(text) == \A k \in 1..Len(text) : \E n \in 1..16 : HexDigits[n] = text[k]
IsBase58(text) ==
    \A k \in 1..Len(text) : \E n \in 1..Len(Base58Chars) : Base58Chars[n] = text[k]

(***************************************************************************)
(* C37: for every 32-byte digest deriveWalletAddress returns, for ETH,     *)
(* "0x" followed by exactly 40 hex digits; for BTC, "1" followed by        *)
(* exactly 33 characters of the base58 alphabet; for SOL, exactly 44       *)
(* characters of the base58 alphabet.                                      *)
(***************************************************************************)
C37_AddressFormat ==
    mlOp = "derive" =>
        LET address == gen.words
        IN CASE gen.strategy = "ETH" ->
                    /\ Len(address) = 42
                    /\ SubSeq(address, 1, 2) = <<"0", "x">>
                    /\ IsHex(SubSeq(address, 3, Len(address)))
             [] gen.strategy = "BTC" ->
                    /\ Len(address) = 34
                    /\ address[1] = "1"
                    /\ IsBase58(SubSeq(address, 2, Len(address)))
             [] gen.strategy = "SOL" ->
                    /\ Len(address) = 44
                    /\ IsBase58(address)

\* the sum of the counts of a map, and of a map of maps
RECURSIVE SumCounts(_)
SumCounts(map) ==
    IF DOMAIN map = {} THEN 0
    ELSE LET k == CHOOSE x \in DOMAIN map : TRUE
         IN map[k] + SumCounts([x \in DOMAIN map \ {k} |-> map[x]])
SumNestedCounts(map) == SumCounts([k \in DOMAIN map |-> SumCounts(map[k])])

\* the sums of a basic state agree with each other and with totalSuccesses
SumsAgree(state) ==
    /\ SumNestedCounts(state.positionPreferences) = SumCounts(state.wordFrequency)
    /\ (IF 0 \in DOMAIN state.positionPreferences
        THEN SumCounts(state.positionPreferences[0]) ELSE 0) = state.totalSuccesses
    /\ SumNestedCounts(state.wordPairs)
           = SumCounts(state.wordFrequency) - state.totalSuccesses

(***************************************************************************)
(* C38: in every basic state built by learn and recordAttempts calls only, *)
(* the sum of all wordFrequency counts equals the sum of all               *)
(* positionPreferences counts and equals the number of tokens learned      *)
(* (each learn adds the tokens of its phrase, recordAttempts adds none);   *)
(* the position-0 counts sum to totalSuccesses; the sum of all wordPairs   *)
(* counts is the tokens learned minus totalSuccesses.                      *)
(***************************************************************************)
C38_Step ==
    /\ SumsAgree(ml)
    /\ SumsAgree(ml')
    /\ SumCounts(ml'.wordFrequency) =
           SumCounts(ml.wordFrequency) + (IF mlOp' = "learn" THEN Len(mlPhrase') ELSE 0)

C38_SumsConsistent == [][C38_Step]_vars

\* two phrases learned, the scenario phrase and a phrase of one token, and
\* attempts recorded: 13 tokens, 11 pairs
C38_Witness ==
    /\ ml.totalSuccesses = 2
    /\ ml.totalAttempts > 0
    /\ SumCounts(ml.wordFrequency) = 13
    /\ SumNestedCounts(ml.wordPairs) = 11

(***************************************************************************)
(* C39: a batch never reports more successes than attempts: once batchScan *)
(* has returned, totalFound <= totalScanned and each scanned phrase has at *)
(* most one entry in foundWallets; once the route has answered, the growth *)
(* of totalSuccesses of the learning state is at most the growth of its    *)
(* totalAttempts.                                                          *)
(***************************************************************************)
C39_SuccessesWithinAttempts ==
    /\ BatchReturned =>
          /\ batch.result.totalFound <= batch.result.totalScanned
          /\ \A k \in 1..Len(batch.iterations) : Len(FundedCurrencies(k)) <= 1
    /\ (batch.pc = "done" /\ batch.route) =>
          ml.totalSuccesses - batch.loaded.totalSuccesses
              <= ml.totalAttempts - batch.loaded.totalAttempts

(***************************************************************************)
(* Overlapping invocations of POST /api/ml/train.  Each invocation holds   *)
(* its own mlState and advancedState; the invocations meet in the row      *)
(* id = 1 of ml_state.  An invocation can be overtaken at each `await`:    *)
(* one step runs from one database call to the next.  `batch.calls` holds  *)
(* the frames of the invocations.                                          *)
(***************************************************************************)
MaxInvocations == 2   \* invocations in flight
Invocations == 1..MaxInvocations
OverlapPhrases == {ScenarioPhrase, AlternatingPhrase, <<"abandon", "Ability">>}

IdleCall ==
    [pc |-> "idle", seedPhrase |-> <<>>, hasBalance |-> FALSE,
     mlState |-> FreshMLState(Epoch), advancedState |-> FreshAdvancedState(Epoch),
     saved |-> FALSE]

InitOverlap ==
    /\ RLIdle
    /\ BalIdle
    /\ MlIdle
    /\ batch = [pc |-> "overlap", calls |-> [i \in Invocations |-> IdleCall]]

OverlapFrame ==
    /\ UNCHANGED <<ml, adv, mlOp, mlPhrase, mlExtra>>
    /\ UNCHANGED nonBatVars

\* the request arrives: the validation, then `await initializeMLState(db)`
TrainBegin(i, seedPhrase, hasBalance) ==
    /\ batch.calls[i].pc = "idle"
    /\ batch' = [batch EXCEPT !.calls[i] =
                    IF TrainRefuses(seedPhrase)
                    THEN [@ EXCEPT !.pc = "refused", !.seedPhrase = seedPhrase,
                                   !.hasBalance = hasBalance]
                    ELSE [@ EXCEPT !.pc = "loadedBasic", !.seedPhrase = seedPhrase,
                                   !.hasBalance = hasBalance,
                                   !.mlState = InitializeMLState(dbRow, now)]]
    /\ UNCHANGED <<dbRow, submissions>>
    /\ OverlapFrame

\* `await initializeAdvancedMLState(db)`, then the learning, the attempts
\* and the decay, which no other invocation can interrupt
TrainLearn(i) ==
    /\ batch.calls[i].pc = "loadedBasic"
    /\ LET c == batch.calls[i]
           advancedState == InitializeAdvancedMLState(dbRow, now)
           learned == IF c.hasBalance
                      THEN LearnFromSuccess(c.mlState, c.seedPhrase, now)
                      ELSE c.mlState
           learnedAdv == IF c.hasBalance
                         THEN LearnFromSuccessAdvanced(advancedState, c.seedPhrase, now)
                         ELSE advancedState
       IN batch' = [batch EXCEPT !.calls[i] =
                       [@ EXCEPT !.pc = "learned",
                                 !.mlState = UpdateAttempts(learned, 1, now),
                                 !.advancedState =
                                     ApplyPatternDecay(
                                         UpdateAdvancedAttempts(learnedAdv, 1, now),
                                         now)]]
    /\ UNCHANGED <<dbRow, submissions>>
    /\ OverlapFrame

\* `await mlLearning.saveMLState(db, mlState)`; saveMLState logs a failure
\* of the write and returns
TrainSaveBasic(i, written) ==
    /\ batch.calls[i].pc = "learned"
    /\ dbRow' = IF written THEN SaveMLState(dbRow, batch.calls[i].mlState) ELSE dbRow
    /\ batch' = [batch EXCEPT !.calls[i].pc = "savedBasic",
                              !.calls[i].saved = written]
    /\ UNCHANGED submissions
    /\ OverlapFrame

\* `await mlAdvanced.saveAdvancedMLState(db, advancedState)`
TrainSaveAdvanced(i) ==
    /\ batch.calls[i].pc = "savedBasic"
    /\ dbRow' = SaveAdvancedMLState(dbRow, batch.calls[i].advancedState, now)
    /\ batch' = [batch EXCEPT !.calls[i].pc = "savedAdvanced"]
    /\ UNCHANGED submissions
    /\ OverlapFrame

\* the INSERT INTO training_submissions, and the answer
TrainInsert(i) ==
    /\ batch.calls[i].pc = "savedAdvanced"
    /\ submissions' = Append(submissions, batch.calls[i].hasBalance)
    /\ batch' = [batch EXCEPT !.calls[i].pc = "done"]
    /\ UNCHANGED dbRow
    /\ OverlapFrame

NextOverlap ==
    \/ \E i \in Invocations, p \in OverlapPhrases, h \in BOOLEAN : TrainBegin(i, p, h)
    \/ \E i \in Invocations : TrainLearn(i)
    \/ \E i \in Invocations, written \in BOOLEAN : TrainSaveBasic(i, written)
    \/ \E i \in Invocations : TrainSaveAdvanced(i)
    \/ \E i \in Invocations : TrainInsert(i)

SpecOverlap == InitOverlap /\ [][NextOverlap]_vars

\* every invocation has answered, and those that learned wrote their state
AllAnswered ==
    \A i \in Invocations :
        \/ batch.calls[i].pc = "refused"
        \/ batch.calls[i].pc = "done" /\ batch.calls[i].saved
\* what the invocations contributed
AttemptsContributed ==
    Cardinality({i \in Invocations : batch.calls[i].pc = "done"})
SuccessesContributed ==
    Cardinality({i \in Invocations :
                    batch.calls[i].pc = "done" /\ batch.calls[i].hasBalance})

(***************************************************************************)
(* C40: overlapping invocations that load the learning state, learn or     *)
(* record attempts and save it lose no update: when all have answered,     *)
(* the persisted totalAttempts and totalSuccesses, as the next invocation  *)
(* loads them (from the basic or from the advanced state of the row),      *)
(* hold the contributions of every invocation.                             *)
(***************************************************************************)
C40_NoLostUpdate ==
    AllAnswered =>
        LET basic == InitializeMLState(dbRow, now)
            advanced == InitializeAdvancedMLState(dbRow, now)
        IN \/ /\ basic.totalAttempts = AttemptsContributed
              /\ basic.totalSuccesses = SuccessesContributed
           \/ /\ advanced.totalAttempts = AttemptsContributed
              /\ advanced.totalSuccesses = SuccessesContributed

====
